---- MODULE Spec2Model ----
(***************************************************************************)
(* Model of the Bitrix24 / OpenAI agent console: the webhook event router  *)
(* (webhook_handler.py), the agent directory (database.py), the chat       *)
(* completion retry loop (openai_client.py), the tool executor             *)
(* (tools_registry.py) and the working-hours gate (message_processor.py).  *)
(***************************************************************************)
EXTENDS Integers, Sequences, FiniteSets, TLC

(***************************************************************************)
(* Values                                                                  *)
(***************************************************************************)
\* Python None / SQL NULL of a text-valued field.
None == "None"

\* SQL NULL of the INTEGER column bot_id.  None and 0 behave alike in every
\* place the code reads a bot id: both are falsy, and neither ever reaches
\* the SQL equality test (the lookup is skipped for a falsy id).
NoBot == 0

\* Truthiness that takes the empty string for a value.
Truthy_NotNone(s) == s # None

\* Python truthiness of a text value: None and the empty string are falsy.
Truthy(s) == s # None /\ s # ""

\* Python "a or b" on text values.
PyOr(a, b) == IF Truthy(a) THEN a ELSE b

\* Limits (config.py)
MAX_AGENTS == 2

\* Bounds of the model
MaxLogs == 1

Domains == {"t1", "t2"}
Weekdays == {"monday", "tuesday"}

(***************************************************************************)
(* Text values.  A text built by concatenation is the sequence of its      *)
(* parts, so that two texts are equal exactly when they are built alike.   *)
(***************************************************************************)
\* Python None where a text (sequence of parts) is expected.
NoText == <<None>>

\* "sep".join(parts) for a list of texts.
RECURSIVE Join(_, _)
Join(sep, texts) ==
    IF texts = <<>> THEN <<>>
    ELSE IF Len(texts) = 1 THEN texts[1]
    ELSE texts[1] \o <<sep>> \o Join(sep, Tail(texts))

\* A chat or dialog identifier is a text whose first part may be the tag
\* "chat"; the absent identifier is the empty text (falsy, like None).
NoId == <<>>

(***************************************************************************)
(* Tool registry and executor (tools_registry.py)                          *)
(***************************************************************************)
\* Names of TOOLS_DEFINITIONS, in catalog order.
TOOLS_DEFINITIONS ==
    <<"crm_lead_add", "crm_deal_add", "crm_contact_add", "crm_lead_get",
      "crm_deal_get", "crm_contact_get", "transfer_chat_to_user",
      "disconnect_agent_from_chat", "get_todays_date", "crm_lead_update",
      "crm_deal_update">>

ToolCatalog == {TOOLS_DEFINITIONS[i] : i \in 1..Len(TOOLS_DEFINITIONS)}

\* get_enabled_tools (lines 333-351) keeping the order of tool_names.
get_enabled_tools_AsListed(tool_names) ==
    SelectSeq(tool_names, LAMBDA name : name \in ToolCatalog)

\* get_enabled_tools (lines 333-351): the definitions of the catalog whose
\* name is in the list tool_names, which is empty or None for no tool.
get_enabled_tools(tool_names) ==
    IF tool_names = <<>> THEN <<>>
    ELSE SelectSeq(TOOLS_DEFINITIONS,
                   LAMBDA name : \E i \in 1..Len(tool_names) : tool_names[i] = name)

\* The argument keys execute_tool reads to decide what it does.
ArgKeys == {"name", "title", "lead_id", "deal_id", "contact_id", "user_id"}

\* The arguments value handed to execute_tool: the parsed JSON, which is a
\* mapping carrying some keys, or a value that is no mapping (list, null).
ToolArguments ==
    [is_dict : {TRUE}, keys : SUBSET ArgKeys] \cup [is_dict : {FALSE}, keys : {{}}]

\* The Bitrix24 client as execute_tool sees it: a call returns "result" or
\* raises an exception whose text is "error".
BitrixClients ==
    [ok : {TRUE}, result : {"101"}, error : {None}]
        \cup [ok : {FALSE}, result : {None}, error : {"HTTP Error: 500"}]

\* Result mappings of execute_tool: error and message are texts (NoText when
\* the mapping lacks the key), id_key names the key that carries a payload.
ToolResult(success, error, message, key, id) ==
    [success |-> success, error |-> error, message |-> message,
     id_key |-> key, id |-> id]

NoToolResult == ToolResult(FALSE, NoText, NoText, None, None)

\* Outcome of evaluating a block: it returns a value or raises, and in both
\* cases has made the client calls "calls".
Return(value, calls) == [kind |-> "return", value |-> value, exc |-> None, calls |-> calls]
Raise(exc, calls) == [kind |-> "raise", value |-> NoToolResult, exc |-> exc, calls |-> calls]

\* bitrix_client.<method>(arg): the call is made; it raises or the branch
\* returns "value".
ClientCall(bitrix_client, method, arg, value) ==
    LET call == <<[method |-> method, arg |-> arg]>>
    IN  IF bitrix_client.ok THEN Return(value, call)
        ELSE Raise(bitrix_client.error, call)

\* arguments[key] raises KeyError for a missing key and TypeError when
\* arguments is no mapping; arguments.get(key) raises AttributeError when
\* arguments is no mapping.
IndexError(arguments, key) ==
    IF ~arguments.is_dict THEN "TypeError"
    ELSE IF key \notin arguments.keys THEN key
    ELSE None

\* The chat id handed on with its tag.
NumericChatId_Tagged(chat_id) == chat_id

\* chat_id[4:] when chat_id is a text starting with "chat".
NumericChatId(chat_id) ==
    IF Len(chat_id) > 0 /\ Head(chat_id) = "chat" THEN Tail(chat_id) ELSE chat_id

\* The body of the try block of execute_tool.
ExecuteToolBody(tool_name, arguments, bitrix_client, chat_id, timezone_ok) ==
    LET Get(method, key) ==
            IF IndexError(arguments, key) # None
            THEN Raise(IndexError(arguments, key), <<>>)
            ELSE ClientCall(bitrix_client, method, <<key>>,
                            ToolResult(TRUE, NoText, NoText, "data", bitrix_client.result))
        Add(method, key, created) ==
            IF ~arguments.is_dict THEN Raise("AttributeError", <<>>)
            ELSE ClientCall(bitrix_client, method, <<"fields">>,
                            ToolResult(TRUE, NoText,
                                       <<created, bitrix_client.result, ")">>,
                                       key, bitrix_client.result))
        Update(method, key, updated) ==
            IF ~arguments.is_dict THEN Raise("AttributeError", <<>>)
            ELSE IF IndexError(arguments, key) # None
            THEN Raise(IndexError(arguments, key), <<>>)
            ELSE ClientCall(bitrix_client, method, <<key, "fields">>,
                            ToolResult(TRUE, NoText, <<updated, key, ")">>, None, None))
    IN
    CASE tool_name = "crm_lead_add" -> Add("crm_lead_add", "lead_id", "Lead created (ID: ")
      [] tool_name = "crm_lead_get" -> Get("crm_lead_get", "lead_id")
      [] tool_name = "crm_lead_update" -> Update("crm_lead_update", "lead_id", "Lead updated (ID: ")
      [] tool_name = "crm_deal_add" -> Add("crm_deal_add", "deal_id", "Deal created (ID: ")
      [] tool_name = "crm_deal_get" -> Get("crm_deal_get", "deal_id")
      [] tool_name = "crm_deal_update" -> Update("crm_deal_update", "deal_id", "Deal updated (ID: ")
      [] tool_name = "crm_contact_add" -> Add("crm_contact_add", "contact_id", "Contact created (ID: ")
      [] tool_name = "crm_contact_get" -> Get("crm_contact_get", "contact_id")
      [] tool_name = "transfer_chat_to_user" ->
            IF chat_id = NoId
            THEN Return(ToolResult(FALSE, <<"chat_id required">>, NoText, None, None), <<>>)
            ELSE IF IndexError(arguments, "user_id") # None
            THEN Raise(IndexError(arguments, "user_id"), <<>>)
            ELSE ClientCall(bitrix_client, "openlines_operator_transfer",
                            NumericChatId(chat_id) \o <<"user_id">>,
                            ToolResult(TRUE, NoText, <<"Chat transferred to operator">>, None, None))
      [] tool_name = "disconnect_agent_from_chat" ->
            IF chat_id = NoId
            THEN Return(ToolResult(FALSE, <<"chat_id required">>, NoText, None, None), <<>>)
            ELSE ClientCall(bitrix_client, "openlines_operator_finish",
                            NumericChatId(chat_id),
                            ToolResult(TRUE, NoText, <<"Agent disconnected from chat">>, None, None))
      [] tool_name = "get_todays_date" ->
            IF ~timezone_ok THEN Raise("UnknownTimeZoneError", <<>>)
            ELSE Return(ToolResult(TRUE, NoText, NoText, "date", None), <<>>)
      [] OTHER ->
            Return(ToolResult(FALSE, <<"Unknown function: ", tool_name>>, NoText, None, None), <<>>)

\* execute_tool with an except clause that catches only the errors of
\* reading the arguments, so that a client exception escapes.
execute_tool_CatchArgsOnly(tool_name, arguments, bitrix_client, chat_id, timezone_ok) ==
    LET body == ExecuteToolBody(tool_name, arguments, bitrix_client, chat_id, timezone_ok)
    IN  IF body.kind = "raise" /\ body.calls = <<>>
        THEN Return(ToolResult(FALSE, <<body.exc>>, NoText, None, None), body.calls)
        ELSE body

\* execute_tool: the body, with "except Exception as e" turning every
\* exception into a failure result.
execute_tool(tool_name, arguments, bitrix_client, chat_id, timezone_ok) ==
    LET body == ExecuteToolBody(tool_name, arguments, bitrix_client, chat_id, timezone_ok)
    IN  IF body.kind = "raise"
        THEN Return(ToolResult(FALSE, <<body.exc>>, NoText, None, None), body.calls)
        ELSE body

(***************************************************************************)
(* Chat completion driver (openai_client.py, chat_completion)              *)
(***************************************************************************)
\* A tool call as the API returns it: arguments is JSON text, which
\* json.loads parses to "value" or rejects (valid = FALSE).
RawToolCalls ==
    {[id |-> "call_1", name |-> "crm_lead_add",
      arguments |-> [valid |-> TRUE, value |-> [is_dict |-> TRUE, keys |-> {"name"}]]],
     [id |-> "call_2", name |-> "crm_deal_get",
      arguments |-> [valid |-> TRUE, value |-> [is_dict |-> TRUE, keys |-> {}]]],
     [id |-> "call_3", name |-> "disconnect_agent_from_chat",
      arguments |-> [valid |-> FALSE, value |-> [is_dict |-> FALSE, keys |-> {}]]]}

RawToolCallLists ==
    {<<>>} \cup {<<c>> : c \in RawToolCalls}
           \cup {<<c, d>> : c \in {x \in RawToolCalls : x.arguments.valid}, d \in RawToolCalls}

\* What one call of client.chat.completions.create does: it raises, or it
\* returns a response with optional text and tool calls.
InferenceOutcomes ==
    [kind : {"raise"}, error : {"timeout", "rate limit"}, content : {NoText},
     tool_calls : {<<>>}]
    \cup [kind : {"response"}, error : {None}, content : {NoText, <<"Hi there!">>},
          tool_calls : RawToolCallLists]

\* The result mapping built from a response (lines 69-86).
NormalizedResult(outcome) ==
    [content |-> outcome.content,
     tool_calls |-> [i \in 1..Len(outcome.tool_calls) |->
                        [id |-> outcome.tool_calls[i].id,
                         function |-> outcome.tool_calls[i].name,
                         arguments |-> outcome.tool_calls[i].arguments.value]],
     usage |-> "usage"]

NoResult == [content |-> NoText, tool_calls |-> <<>>, usage |-> None]

\* The locals of chat_completion before the loop (lines 41-42); calls counts
\* the invocations of the underlying inference call.
ChatCompletionStart ==
    [attempt |-> 0, last_error |-> None, calls |-> 0, status |-> "running",
     result |-> NoResult, error |-> NoText]

\* The except block giving up one failure late (attempt > max_retries).
ChatCompletionExcept_OneMore(st, msg, max_retries) ==
    LET attempt == st.attempt + 1
    IN  [st EXCEPT !.attempt = attempt,
                   !.last_error = msg,
                   !.status = IF attempt > max_retries THEN "raised" ELSE "running",
                   !.error = IF attempt > max_retries
                             THEN <<"OpenAI API failed: ", msg>> ELSE st.error]

\* The except block (lines 92-99) after an exception with text msg.
ChatCompletionExcept(st, msg, max_retries) ==
    LET attempt == st.attempt + 1
    IN  [st EXCEPT !.attempt = attempt,
                   !.last_error = msg,
                   !.status = IF attempt >= max_retries THEN "raised" ELSE "running",
                   !.error = IF attempt >= max_retries
                             THEN <<"OpenAI API failed: ", msg>> ELSE st.error]

\* One pass of the loop body (lines 45-99): the inference call is made, and
\* json.loads of a tool call's arguments may raise inside the try block.
ChatCompletionAttempt(st, outcome, max_retries) ==
    LET called == [st EXCEPT !.calls = st.calls + 1]
    IN  IF outcome.kind = "raise"
        THEN ChatCompletionExcept(called, outcome.error, max_retries)
        ELSE IF \E i \in 1..Len(outcome.tool_calls) : ~outcome.tool_calls[i].arguments.valid
        THEN ChatCompletionExcept(called, "JSONDecodeError", max_retries)
        ELSE [called EXCEPT !.status = "returned", !.result = NormalizedResult(outcome)]

\* The loop condition (line 44).
ChatCompletionLoops(st, max_retries) ==
    st.status = "running" /\ st.attempt < max_retries

\* Leaving the loop because its condition is false: the function ends
\* without a return statement and yields None.
ChatCompletionFallThrough(st) == [st EXCEPT !.status = "returned_none"]

\* chat_completion run to its end on the outcomes of its successive
\* inference calls.
RECURSIVE chat_completion(_, _, _)
chat_completion(st, outcomes, max_retries) ==
    IF st.status # "running" THEN st
    ELSE IF ~ChatCompletionLoops(st, max_retries) THEN ChatCompletionFallThrough(st)
    ELSE IF outcomes = <<>> THEN st
    ELSE chat_completion(ChatCompletionAttempt(st, Head(outcomes), max_retries),
                         Tail(outcomes), max_retries)

(***************************************************************************)
(* Working-hours gate (message_processor.py, is_working_hours)             *)
(***************************************************************************)
\* A text of characters is the sequence of their codes, so that Python's
\* comparison of two str values is the lexicographic order of the codes.
Digit(d) == 48 + d
Colon == 58

\* now.strftime('%H:%M') and the schedule's "HH:MM" texts.
HHMM(hour, minute) ==
    <<Digit(hour \div 10), Digit(hour % 10), Colon,
      Digit(minute \div 10), Digit(minute % 10)>>

\* a <= b on str values.
RECURSIVE StrLeq(_, _)
StrLeq(a, b) ==
    IF a = <<>> THEN TRUE
    ELSE IF b = <<>> THEN FALSE
    ELSE IF Head(a) # Head(b) THEN Head(a) < Head(b)
    ELSE StrLeq(Tail(a), Tail(b))

\* day_schedule.get(key, default)
DictGet(mapping, key, default) ==
    IF key \in DOMAIN mapping THEN mapping[key] ELSE default

\* is_working_hours with the upper bound excluded.
is_working_hours_Exclusive(agent, now) ==
    IF ~agent.working_hours_enabled THEN TRUE
    ELSE IF ~agent.timezone_ok THEN TRUE
    ELSE IF now.weekday \notin DOMAIN agent.working_hours_schedule THEN FALSE
    ELSE LET day_schedule == agent.working_hours_schedule[now.weekday]
             time_from == DictGet(day_schedule, "from", HHMM(0, 0))
             time_to == DictGet(day_schedule, "to", HHMM(23, 59))
             current_time == HHMM(now.hour, now.minute)
         IN  StrLeq(time_from, current_time)
                /\ StrLeq(current_time, time_to) /\ current_time # time_to

\* is_working_hours (lines 23-50).  now is the agent-local clock reading;
\* pytz.timezone raises for an unknown zone name, and the except block
\* answers True.
is_working_hours(agent, now) ==
    IF ~agent.working_hours_enabled THEN TRUE
    ELSE IF ~agent.timezone_ok THEN TRUE
    ELSE IF now.weekday \notin DOMAIN agent.working_hours_schedule THEN FALSE
    ELSE LET day_schedule == agent.working_hours_schedule[now.weekday]
             time_from == DictGet(day_schedule, "from", HHMM(0, 0))
             time_to == DictGet(day_schedule, "to", HHMM(23, 59))
             current_time == HHMM(now.hour, now.minute)
         IN  StrLeq(time_from, current_time) /\ StrLeq(current_time, time_to)

(***************************************************************************)
(* Agent table (database.py, CREATE TABLE agents)                          *)
(***************************************************************************)
AgentIds == 1..MAX_AGENTS

\* The schedule the agents of the table carry: Monday 09:00-18:00.
MondayNineToSix == "monday" :> (("from" :> HHMM(9, 0)) @@ ("to" :> HHMM(18, 0)))

\* The rows agent i can be: bot ids are positive once bound, NoBot before.
\* created_at is in whole seconds, so two rows can carry the same value;
\* ids grow with time.  Every row names a time zone pytz knows.  Agent 1
\* belongs to tenant t1; agent 2 belongs to t1 as well, or is a bot of
\* tenant t2 bound to the same bot id and open line.  An open line is
\* bound to agents of type openline only, and working hours are switched
\* on for agent 1 only.
AgentRows(i) ==
    {r \in [id : {i},
            domain : IF i = 1 THEN {"t1"} ELSE Domains,
            bot_id : {NoBot, 42},
            open_line_id : {None, "L1"},
            is_active : BOOLEAN,
            bot_type : {"internal", "openline"},
            working_hours_enabled : BOOLEAN,
            working_hours_schedule : {MondayNineToSix},
            timezone_ok : {TRUE},
            max_retries : {3},
            created_at : {1, 2}] :
        /\ r.created_at = 2 => (i = 2 /\ r.domain = "t1")
        /\ r.working_hours_enabled => i = 1
        /\ r.open_line_id # None => r.bot_type = "openline"
        /\ r.domain = "t2" => (r.bot_id = 42 /\ r.open_line_id = "L1")}

\* The value of the variable "agent" when no row was found (Python None).
NoAgent ==
    [id |-> 0, domain |-> None, bot_id |-> NoBot, open_line_id |-> None,
     is_active |-> FALSE, bot_type |-> None, working_hours_enabled |-> FALSE,
     working_hours_schedule |-> <<>>, timezone_ok |-> FALSE, max_retries |-> 0,
     created_at |-> 0]

\* Tables of at most MAX_AGENTS rows with distinct ids.
AgentTables ==
    {{}} \cup {{r} : r \in AgentRows(1)} \cup {{r} : r \in AgentRows(2)}
         \cup {{r1, r2} : r1 \in AgentRows(1), r2 \in AgentRows(2)}

(***************************************************************************)
(* Agent directory (database.py)                                           *)
(***************************************************************************)
\* The orders a sequence can list the rows of a set in.
Orderings(rows) ==
    {l \in [1..Cardinality(rows) -> rows] :
        \A i, j \in 1..Cardinality(rows) : i # j => l[i] # l[j]}

\* get_agents: SELECT ... WHERE domain = ? ORDER BY created_at DESC.  Rows
\* with equal created_at come in an order SQL leaves open.
get_agents(table, domain) ==
    {l \in Orderings({r \in table : r.domain = domain}) :
        \A i, j \in 1..Len(l) : i < j => l[i].created_at >= l[j].created_at}

\* get_used_openlines (database.py lines 725-741): SELECT open_line_id FROM
\* agents WHERE domain = ? AND open_line_id IS NOT NULL AND is_active = 1,
\* collected into a set.
get_used_openlines(table, domain) ==
    {row.open_line_id :
        row \in {r \in table : /\ r.domain = domain
                                /\ r.open_line_id # None
                                /\ r.is_active}}

\* get_agent_by_bot_id without the tenant condition.
get_agent_by_bot_id_AnyTenant(table, bot_id, domain) ==
    LET rows == {r \in table : r.bot_id = bot_id}
    IN  IF bot_id = NoBot \/ rows = {} THEN {NoAgent} ELSE rows

\* get_agent_by_bot_id: fetchone() of SELECT ... WHERE bot_id = ? AND
\* domain = ?; any matching row when several match, None when none does.
get_agent_by_bot_id(table, bot_id, domain) ==
    LET rows == {r \in table : r.bot_id = bot_id /\ r.domain = domain}
    IN  IF bot_id = NoBot \/ rows = {} THEN {NoAgent} ELSE rows

\* get_agent_by_openline without the tenant condition.
get_agent_by_openline_AnyTenant(table, open_line_id, domain) ==
    LET rows == {r \in table : r.open_line_id = open_line_id}
    IN  IF rows = {} THEN {NoAgent} ELSE rows

\* get_agent_by_openline: fetchone() of SELECT ... WHERE open_line_id = ?
\* AND domain = ?.
get_agent_by_openline(table, open_line_id, domain) ==
    LET rows == {r \in table : r.open_line_id = open_line_id /\ r.domain = domain}
    IN  IF rows = {} THEN {NoAgent} ELSE rows

(***************************************************************************)
(* Event normalizer (webhook_handler.py, parse_bitrix_form_data)           *)
(***************************************************************************)
\* A flat form key is the sequence of its name and bracketed parts:
\* data[PARAMS][MESSAGE] is <<"data", "PARAMS", "MESSAGE">>.
\* The patterns are applied with re.match, which matches at the start of the
\* key and does not look at what follows the match: a key with further
\* bracketed parts matches as well.  (\w+) needs a name of word characters.
NonWords == {"", "a-b"}
IsWord(name) == name \notin NonWords
IsParamKey(key) == Len(key) >= 3 /\ key[1] = "data" /\ key[2] = "PARAMS" /\ IsWord(key[3])
IsUserKey(key) == Len(key) >= 3 /\ key[1] = "data" /\ key[2] = "USER" /\ IsWord(key[3])
IsAuthKey(key) == Len(key) >= 2 /\ key[1] = "auth" /\ IsWord(key[2])

\* The items of a flat mapping whose keys satisfy a pattern, under the
\* captured name.
Fold(form_data, keys, part) ==
    [name \in {key[part] : key \in keys} |->
        form_data[CHOOSE key \in keys : key[part] = name]]

\* The envelope: event, the PARAMS and USER groups of data, and auth.  A
\* JSON body is taken as it comes, so it may be no mapping at all
\* (is_dict = FALSE), or carry a data, PARAMS or auth value that is no
\* mapping (data_ok, auth_ok = FALSE).
Envelope(event, params, user, auth) ==
    [is_dict |-> TRUE, event |-> event, data_ok |-> TRUE, params |-> params,
     user |-> user, auth_ok |-> TRUE, auth |-> auth]

parse_bitrix_form_data(form_data) ==
    Envelope(DictGet(form_data, <<"event">>, None),
             Fold(form_data, {k \in DOMAIN form_data : IsParamKey(k)}, 3),
             Fold(form_data, {k \in DOMAIN form_data : IsUserKey(k)}, 3),
             Fold(form_data, {k \in DOMAIN form_data : IsAuthKey(k)}, 2))

\* The empty mapping {} as an envelope.
EmptyEnvelope == Envelope(None, <<>>, <<>>, <<>>)

(***************************************************************************)
(* Event router (webhook_handler.py)                                       *)
(***************************************************************************)
\* The lifecycle events without ONIMBOTDELETE.
LifecycleEvents_NoDelete ==
    {"ONIMBOTJOINCHAT", "ONIMBOTWELCOMEMESSAGE", "ONIMBOTMESSAGEUPDATE",
     "ONIMBOTMESSAGEDELETE"}

LifecycleEvents ==
    {"ONIMBOTJOINCHAT", "ONIMBOTWELCOMEMESSAGE", "ONIMBOTMESSAGEUPDATE",
     "ONIMBOTMESSAGEDELETE", "ONIMBOTDELETE"}
OpenlineEvents == {"ONIMCONNECTORMESSAGEADD", "ONIMOPENLINEMESSAGEADD"}
InternalEvents == {"ONIMBOTMESSAGEADD"}

\* jsonify(...) and its status code.  A key the body lacks is Absent.
Absent == "<absent>"
Response(http, status, event, error) ==
    [http |-> http, status |-> status, event |-> event, error |-> error]
Status(status) == Response(200, status, Absent, Absent)
ServerError(error) == Response(500, Absent, Absent, error)
NoResponse == Response(0, Absent, Absent, Absent)

\* int(to_bot_id): the value, or the exception raised.  A float infinity of
\* a JSON body raises OverflowError, a text that is no number ValueError, a
\* list TypeError.
IntOf(raw) ==
    CASE raw = "0" -> [exc |-> None, value |-> 0]
      [] raw = "42" -> [exc |-> None, value |-> 42]
      [] raw = "43" -> [exc |-> None, value |-> 43]
      [] raw = "abc" -> [exc |-> "ValueError", value |-> 0]
      [] raw = "[42]" -> [exc |-> "TypeError", value |-> 0]
      [] raw = "1e999" -> [exc |-> "OverflowError", value |-> 0]

\* Lines 323-328 of handle_message_add: bot_id_int, or the exception that
\* "except (ValueError, TypeError)" lets through.
CoerceBotId(to_bot_id) ==
    IF ~Truthy(to_bot_id) THEN [exc |-> None, value |-> NoBot]
    ELSE IF IntOf(to_bot_id).exc \in {"ValueError", "TypeError"}
    THEN [exc |-> None, value |-> NoBot]
    ELSE IntOf(to_bot_id)

\* The fallback loops: the first row of the listing that is active and has
\* a bot id (lines 342-346), or is active and of type openline (225-229).
RECURSIVE FallbackWithBot(_)
FallbackWithBot(all_agents) ==
    IF all_agents = <<>> THEN NoAgent
    ELSE IF Head(all_agents).is_active /\ Head(all_agents).bot_id # NoBot
    THEN Head(all_agents)
    ELSE FallbackWithBot(Tail(all_agents))

RECURSIVE FallbackOpenline(_)
FallbackOpenline(all_agents) ==
    IF all_agents = <<>> THEN NoAgent
    ELSE IF Head(all_agents).is_active /\ Head(all_agents).bot_type = "openline"
    THEN Head(all_agents)
    ELSE FallbackOpenline(Tail(all_agents))

\* target_dialog_id of handle_openline_message (line 245).
TargetDialogId(dialog_id, chat_id) ==
    IF chat_id # NoId /\ Head(chat_id) # "chat"
    THEN <<"chat">> \o chat_id
    ELSE IF dialog_id # NoId THEN dialog_id ELSE chat_id

(***************************************************************************)
(* Turn (webhook_handler.py, process_with_openai)                          *)
(***************************************************************************)
\* What the turn meets: an exception before the inference call (unknown
\* time zone, failing knowledge-base read), the outcomes of the successive
\* inference calls, and the client behaviour at each tool call.
TurnResult(text, st, results, client_calls) ==
    [response_text |-> text, inference_calls |-> st.calls,
     functions |-> [i \in 1..Len(results) |-> st.result.tool_calls[i].function],
     tool_results |-> results, client_calls |-> client_calls]

\* r.get('message', 'OK') of a tool result.
MessageOrOK(r) == IF r.message = NoText THEN <<"OK">> ELSE r.message

RECURSIVE SelectSuccessful(_)
SelectSuccessful(results) ==
    IF results = <<>> THEN <<>>
    ELSE IF Head(results).success
    THEN <<MessageOrOK(Head(results))>> \o SelectSuccessful(Tail(results))
    ELSE SelectSuccessful(Tail(results))

RECURSIVE Flatten(_)
Flatten(lists) ==
    IF lists = <<>> THEN <<>> ELSE Head(lists) \o Flatten(Tail(lists))

process_with_openai(agent, chat_id, env) ==
    IF env.pre_error # None
    THEN TurnResult(<<"Error: ", env.pre_error>>, ChatCompletionStart, <<>>, <<>>)
    ELSE
    LET st == chat_completion(ChatCompletionStart, env.outcomes, agent.max_retries)
    IN  IF st.status = "raised"
        THEN TurnResult(<<"Error: ">> \o st.error, st, <<>>, <<>>)
        ELSE IF st.status = "returned_none"
        THEN TurnResult(<<"Error: ", "AttributeError">>, st, <<>>, <<>>)
        ELSE
        LET response == st.result
            executed == [i \in 1..Len(response.tool_calls) |->
                            execute_tool(response.tool_calls[i].function,
                                         response.tool_calls[i].arguments,
                                         env.clients[i], chat_id, env.timezone_ok)]
            tool_results == [i \in 1..Len(executed) |-> executed[i].value]
            client_calls == Flatten([i \in 1..Len(executed) |-> executed[i].calls])
            successful == SelectSuccessful(tool_results)
        IN  IF response.tool_calls # <<>>
            THEN IF response.content # NoText /\ response.content # <<>>
                 THEN TurnResult(response.content, st, tool_results, client_calls)
                 ELSE IF successful # <<>>
                 THEN TurnResult(<<"Done: ">> \o Join(", ", successful), st,
                                 tool_results, client_calls)
                 ELSE TurnResult(<<"Action completed.">>, st, tool_results, client_calls)
            ELSE TurnResult(response.content, st, <<>>, <<>>)

(***************************************************************************)
(* Turn orchestrator (message_processor.py, process_chat_messages)         *)
(***************************************************************************)
\* The steps of a turn that reach the database, the Bitrix24 REST API or
\* the knowledge base, and so can raise.
TurnSteps ==
    {"send_notice", "log_notice", "get_unprocessed_messages", "get_rag_context",
     "tool_log", "update_chat_status", "inbound_log", "send_reply", "sent_log",
     "mark_messages_processed", "error_log"}

\* The exception a step raises when it fails.
StepError(step) ==
    IF step \in {"send_notice", "send_reply"} THEN <<"HTTP Error: 500">>
    ELSE <<"OperationalError">>

\* A row of table chats as update_chat_status writes it.
ChatRow(status, lead_id, deal_id) ==
    [status |-> status, created_lead_id |-> lead_id, created_deal_id |-> deal_id]

\* update_chat_status (database.py lines 575-599): the status is written,
\* and an id only when it is given (truthy).
update_chat_status(chat, status, lead_id, deal_id) ==
    [status |-> status,
     created_lead_id |-> IF Truthy(lead_id) THEN lead_id ELSE chat.created_lead_id,
     created_deal_id |-> IF Truthy(deal_id) THEN deal_id ELSE chat.created_deal_id]

\* A row of table logs as add_log writes it (database.py lines 680-700):
\* content is the "content" entry of action_data (NoText when it has none).
LogRow(agent_id, action_type, content, success, error_message) ==
    [agent_id |-> agent_id, action_type |-> action_type, content |-> content,
     success |-> success, error_message |-> error_message]

\* What a turn has done so far: exc is the exception in flight (NoText when
\* there is none), sent the messages posted to the dialog, logs the rows
\* added to table logs, chat the session row, processed whether the
\* messages were marked processed.
TurnState(chat) ==
    [exc |-> NoText, inference_calls |-> 0, tool_results |-> <<>>,
     client_calls |-> <<>>, sent |-> <<>>, logs |-> <<>>, chat |-> chat,
     processed |-> FALSE]

Raising(s, exc) == [s EXCEPT !.exc = exc]

\* self.bitrix.bot_send_message(bot_id, dialog_id, message)
BotSendMessage(s, env, step, dialog_id, message) ==
    IF step \in env.faults THEN Raising(s, StepError(step))
    ELSE [s EXCEPT !.sent = Append(@, [dialog_id |-> dialog_id, message |-> message])]

\* self.db.add_log(agent id, action_type, ...)
AddLog(s, env, step, row) ==
    IF step \in env.faults THEN Raising(s, StepError(step))
    ELSE [s EXCEPT !.logs = Append(@, row)]

\* result.get(key) of a tool result.
ResultGet(result, key) == IF result.id_key = key THEN result.id ELSE None

\* _format_working_hours (lines 237-262): times['from'] and times['to'] raise
\* KeyError for an entry that lacks the key.
FormatWorkingHoursError(agent) ==
    IF ~agent.working_hours_enabled \/ DOMAIN agent.working_hours_schedule = {}
    THEN NoText
    ELSE IF \E day \in DOMAIN agent.working_hours_schedule :
                "from" \notin DOMAIN agent.working_hours_schedule[day]
    THEN <<"KeyError: 'from'">>
    ELSE IF \E day \in DOMAIN agent.working_hours_schedule :
                "to" \notin DOMAIN agent.working_hours_schedule[day]
    THEN <<"KeyError: 'to'">>
    ELSE NoText

\* Lines 61-78: the branch taken outside working hours.
OutsideHours(s, agent, chat_id, env) ==
    IF FormatWorkingHoursError(agent) # NoText
    THEN Raising(s, FormatWorkingHoursError(agent))
    ELSE LET notice == <<"Thank you for reaching out! Our working hours are: ",
                         "schedule",
                         ". We will respond during business hours.">>
             sent == BotSendMessage(s, env, "send_notice", chat_id, notice)
         IN  IF sent.exc # NoText THEN sent
             ELSE AddLog(sent, env, "log_notice",
                         LogRow(agent.id, <<"outside_working_hours">>, NoText, TRUE, NoText))

\* _build_conversation (lines 198-235): pytz.timezone raises for an unknown
\* zone name, and the knowledge-base read can fail.
BuildConversationError(agent, env) ==
    IF ~agent.timezone_ok THEN <<"UnknownTimeZoneError">>
    ELSE IF "get_rag_context" \in env.faults THEN StepError("get_rag_context")
    ELSE NoText

\* The rule applied whatever the agent's inbound_only flag.
InboundOnlyRule_IgnoreFlag(s, agent, function, result, env) ==
    IF function \in {"crm_lead_add", "crm_deal_add"} /\ result.success
    THEN IF "update_chat_status" \in env.faults
         THEN Raising(s, StepError("update_chat_status"))
         ELSE AddLog([s EXCEPT !.chat = update_chat_status(@, "completed",
                                            ResultGet(result, "lead_id"),
                                            ResultGet(result, "deal_id"))],
                     env, "inbound_log",
                     LogRow(agent.id, <<"inbound_only_disconnect">>, NoText, TRUE, NoText))
    ELSE s

\* Lines 129-149: the inbound-only rule after one tool call.
InboundOnlyRule(s, agent, function, result, env) ==
    IF agent.inbound_only /\ function \in {"crm_lead_add", "crm_deal_add"}
       /\ result.success
    THEN IF "update_chat_status" \in env.faults
         THEN Raising(s, StepError("update_chat_status"))
         ELSE AddLog([s EXCEPT !.chat = update_chat_status(@, "completed",
                                            ResultGet(result, "lead_id"),
                                            ResultGet(result, "deal_id"))],
                     env, "inbound_log",
                     LogRow(agent.id, <<"inbound_only_disconnect">>, NoText, TRUE, NoText))
    ELSE s

\* The loop body skipping every call that follows a failed one.
ToolCallStep_SkipAfterFailure(s, tool_call, bitrix_client, agent, chat_id, env) ==
    IF s.tool_results # <<>> /\ ~s.tool_results[Len(s.tool_results)].success
    THEN s
    ELSE LET executed == execute_tool(tool_call.function, tool_call.arguments,
                                      bitrix_client, chat_id, agent.timezone_ok)
             result == executed.value
             appended == [s EXCEPT !.tool_results = Append(@, result),
                                   !.client_calls = @ \o executed.calls]
             logged == AddLog(appended, env, "tool_log",
                              LogRow(agent.id, <<"tool_call_", tool_call.function>>,
                                     NoText, result.success, NoText))
         IN  IF logged.exc # NoText THEN logged
             ELSE InboundOnlyRule(logged, agent, tool_call.function, result, env)

\* One pass of the loop body (lines 106-149).
ToolCallStep(s, tool_call, bitrix_client, agent, chat_id, env) ==
    LET executed == execute_tool(tool_call.function, tool_call.arguments,
                                 bitrix_client, chat_id, agent.timezone_ok)
        result == executed.value
        appended == [s EXCEPT !.tool_results = Append(@, result),
                              !.client_calls = @ \o executed.calls]
        logged == AddLog(appended, env, "tool_log",
                         LogRow(agent.id, <<"tool_call_", tool_call.function>>,
                                NoText, result.success, NoText))
    IN  IF logged.exc # NoText THEN logged
        ELSE InboundOnlyRule(logged, agent, tool_call.function, result, env)

\* The loop over response['tool_calls'] (line 106); an exception ends it.
RECURSIVE ToolLoop(_, _, _, _, _, _)
ToolLoop(s, tool_calls, clients, agent, chat_id, env) ==
    IF tool_calls = <<>> \/ s.exc # NoText THEN s
    ELSE ToolLoop(ToolCallStep(s, Head(tool_calls), Head(clients), agent, chat_id, env),
                  Tail(tool_calls), Tail(clients), agent, chat_id, env)

\* Python truthiness of a text: None and "" are falsy.
HasText(text) == text # NoText /\ text # <<>>

\* Lines 151-163 with every successful result announced as "OK".
FinalMessage_AlwaysOK(response, tool_results) ==
    IF response.tool_calls # <<>>
    THEN IF HasText(response.content) THEN response.content
         ELSE LET successful == SelectSuccessful(tool_results)
              IN  IF successful # <<>>
                  THEN <<"Done: ">> \o Join(", ", [i \in 1..Len(successful) |-> <<"OK">>])
                  ELSE <<"Action completed.">>
    ELSE response.content

\* Lines 151-163: the reply text.  response.get('content', default) yields
\* the stored value, None included, because the key is always present.
FinalMessage(response, tool_results) ==
    IF response.tool_calls # <<>>
    THEN IF HasText(response.content) THEN response.content
         ELSE LET successful == SelectSuccessful(tool_results)
              IN  IF successful # <<>>
                  THEN <<"Done: ">> \o Join(", ", successful)
                  ELSE <<"Action completed.">>
    ELSE response.content

\* Lines 165-182: send, log and mark processed.
SendReply(s, agent, chat_id, final_message, env) ==
    LET sent == IF HasText(final_message)
                THEN BotSendMessage(s, env, "send_reply", chat_id, final_message)
                ELSE s
        logged == IF HasText(final_message) /\ sent.exc = NoText
                  THEN AddLog(sent, env, "sent_log",
                              LogRow(agent.id, <<"message_sent">>, final_message, TRUE, NoText))
                  ELSE sent
    IN  IF logged.exc # NoText THEN logged
        ELSE IF "mark_messages_processed" \in env.faults
        THEN Raising(logged, StepError("mark_messages_processed"))
        ELSE [logged EXCEPT !.processed = TRUE]

\* The body of the try block (lines 93-182).
TurnBody(s, agent, chat_id, env) ==
    LET st == chat_completion(ChatCompletionStart, env.outcomes, agent.max_retries)
        called == [s EXCEPT !.inference_calls = st.calls]
    IN  IF st.status = "raised" THEN Raising(called, st.error)
        ELSE IF st.status = "returned_none" THEN Raising(called, <<"TypeError">>)
        ELSE LET response == st.result
                 looped == ToolLoop(called, response.tool_calls, env.clients,
                                    agent, chat_id, env)
             IN  IF looped.exc # NoText THEN looped
                 ELSE SendReply(looped, agent, chat_id,
                                FinalMessage(response, looped.tool_results), env)

\* The except block (lines 184-196): the exception is logged, and the log
\* write itself can raise.
ExceptBlock(s, agent, env) ==
    AddLog(Raising(s, NoText), env, "error_log",
           LogRow(agent.id, <<"processing_error">>, s.exc, FALSE, s.exc))

\* process_chat_messages (lines 52-196).  A result with exc # NoText is an
\* exception that leaves the method.
process_chat_messages(agent, chat_id, env) ==
    LET s == TurnState(env.chat)
    IN  IF ~is_working_hours(agent, env.now) THEN OutsideHours(s, agent, chat_id, env)
        ELSE IF "get_unprocessed_messages" \in env.faults
        THEN Raising(s, StepError("get_unprocessed_messages"))
        ELSE IF env.messages = 0 THEN s
        ELSE IF BuildConversationError(agent, env) # NoText
        THEN Raising(s, BuildConversationError(agent, env))
        ELSE LET body == TurnBody(s, agent, chat_id, env)
             IN  IF body.exc # NoText THEN ExceptBlock(body, agent, env) ELSE body

(***************************************************************************)
(* State                                                                   *)
(***************************************************************************)
VARIABLES
    tool_call,      \* execute_tool: the call being made (its parameters)
    tool_outcome,   \* execute_tool: what the call did (return or raise)
    cc_max_retries, \* chat_completion: the max_retries parameter
    cc,             \* chat_completion: its locals and how it ended
    cc_history,     \* chat_completion: outcomes of the inference calls so far
    hours_agent,    \* is_working_hours: the agent's working-hours fields
    hours_now,      \* is_working_hours: the agent-local clock reading
    hours_result,   \* is_working_hours: the value returned
    agents,         \* database: the rows of table agents
    logs,           \* database: the rows of table logs, oldest first
    pc,             \* webhook: where the request in flight stands
    event_data,     \* webhook: the envelope of the request
    bot_id_int,     \* webhook: the coerced TO_USER_ID
    all_agents,     \* webhook: the listing read for the fallback
    agent,          \* webhook: the agent row the router holds
    calls,          \* webhook: database and outbound calls of this request
    turn,           \* webhook: what process_with_openai did
    now,            \* webhook: the weekday process_with_openai read
    response,       \* webhook: the last HTTP response
    turn_input,     \* turn: the agent, the dialog and what the turn meets
    pwo_result,     \* turn: what process_with_openai did on turn_input
    pcm_result,     \* turn: what process_chat_messages did on turn_input
    offered,        \* turn: the tools get_enabled_tools gave for the agent
    config,         \* console: the deployment's Config values
    next_id,        \* console: the id the next inserted agent row gets
    next_bot_id,    \* console: the id Bitrix24 gives the next registered bot
    api_response,   \* console: the last response of an agent endpoint
    rag_documents,  \* database: the rows of table rag_documents
    chats,          \* database: the rows of table chats
    messages,       \* database: the rows of table messages
    rowid,          \* database: the last AUTOINCREMENT id of chats and messages
    requests,       \* store: the calls in flight, each with its locals
    finished,       \* store: the last call that ended and what it returned
    rag_max_length, \* get_rag_context: the max_length parameter
    rag_context,    \* get_rag_context: the value returned
    client,         \* BitrixClient: mode, cached token and installed app
    rest,           \* BitrixClient.call: where the invocation stands
    form            \* parse_bitrix_form_data: the flat form received

toolVars == <<tool_call, tool_outcome>>
ccVars == <<cc_max_retries, cc, cc_history>>
hoursVars == <<hours_agent, hours_now, hours_result>>
dbVars == <<agents, logs>>
reqVars == <<pc, event_data, bot_id_int, all_agents, agent, calls, turn, now, response>>
webVars == <<dbVars, reqVars>>
turnVars == <<turn_input, pwo_result, pcm_result, offered>>
adminVars == <<config, next_id, next_bot_id, api_response>>
storeVars == <<rag_documents, chats, messages, rowid, requests, finished>>
ragVars == <<rag_max_length, rag_context>>
callVars == <<client, rest>>
dataVars == <<storeVars, ragVars, callVars, form>>
vars == <<toolVars, ccVars, hoursVars, webVars, turnVars, adminVars, dataVars>>

(***************************************************************************)
(* Tool executor: one call of execute_tool on any input                    *)
(***************************************************************************)
ToolNames == ToolCatalog \cup {"crm_lead_delete"}
ChatIds == {NoId, <<"7">>, <<"chat", "7">>}

ToolCalls ==
    [tool_name : ToolNames, arguments : ToolArguments, bitrix_client : BitrixClients,
     chat_id : ChatIds, timezone_ok : BOOLEAN]

\* The call has not been made yet.
Pending == [kind |-> "pending", value |-> NoToolResult, exc |-> None, calls |-> <<>>]

NoToolCall ==
    [tool_name |-> None, arguments |-> [is_dict |-> FALSE, keys |-> {}],
     bitrix_client |-> [ok |-> FALSE, result |-> None, error |-> None],
     chat_id |-> NoId, timezone_ok |-> FALSE]

\* The components at rest, for the specifications that do not run them.
ToolIdle == tool_call = NoToolCall /\ tool_outcome = Pending
RetryIdle == cc_max_retries = 0 /\ cc = ChatCompletionStart /\ cc_history = <<>>

NotCalled == [done |-> FALSE, value |-> FALSE]
Returned(value) == [done |-> TRUE, value |-> value]

HoursIdle ==
    /\ hours_agent = [working_hours_enabled |-> FALSE, timezone_ok |-> TRUE,
                      working_hours_schedule |-> <<>>]
    /\ hours_now = [weekday |-> "monday", hour |-> 0, minute |-> 0]
    /\ hours_result = NotCalled

NoTurn == TurnResult(NoText, ChatCompletionStart, <<>>, <<>>)

WebIdle ==
    /\ agents = {}
    /\ logs = <<>>
    /\ pc = "idle"
    /\ event_data = EmptyEnvelope
    /\ bot_id_int = NoBot
    /\ all_agents = <<>>
    /\ agent = NoAgent
    /\ calls = <<>>
    /\ turn = NoTurn
    /\ now = "monday"
    /\ response = NoResponse

\* No turn is set up.
NoTurnInput ==
    [agent |-> [id |-> 0, inbound_only |-> FALSE, working_hours_enabled |-> FALSE,
                working_hours_schedule |-> <<>>, timezone_ok |-> TRUE, max_retries |-> 0],
     chat_id |-> NoId, now |-> [weekday |-> "monday", hour |-> 0, minute |-> 0],
     messages |-> 0, chat |-> ChatRow("active", None, None), outcomes |-> <<>>,
     clients |-> <<>>, faults |-> {}]

NotRun(value) == [ran |-> FALSE, value |-> value]
Ran(value) == [ran |-> TRUE, value |-> value]

TurnIdle ==
    /\ turn_input = NoTurnInput
    /\ pwo_result = NotRun(NoTurn)
    /\ pcm_result = NotRun(TurnState(NoTurnInput.chat))
    /\ offered = NotRun(<<>>)

(***************************************************************************)
(* Data store (database.py): knowledge chunks, chat sessions, messages     *)
(***************************************************************************)
\* A row of table rag_documents (lines 114-124).  content is the slice of
\* the uploaded file the chunk holds: the file, where the slice starts and
\* how many characters it has.
RagRow(id, agent_id, filename, content, chunk_index) ==
    [id |-> id, agent_id |-> agent_id, filename |-> filename, content |-> content,
     chunk_index |-> chunk_index]

\* A row of table chats (lines 129-142) and one of table messages
\* (lines 147-160); processed is 0 on insert.
SessionRow(id, agent_id, chat_id) == [id |-> id, agent_id |-> agent_id, chat_id |-> chat_id]
MessageRow(id, chat_table_id) == [id |-> id, chat_table_id |-> chat_table_id, processed |-> FALSE]

\* delete_rag_documents_by_filename (lines 538-546).
delete_rag_documents_by_filename(table, agent_id, filename) ==
    {r \in table : ~(r.agent_id = agent_id /\ r.filename = filename)}

\* get_unprocessed_messages (lines 627-641), as the ids of the rows read.
get_unprocessed_messages(table, chat_table_id) ==
    {m.id : m \in {r \in table : r.chat_table_id = chat_table_id /\ ~r.processed}}

\* mark_messages_processed (lines 661-676): UPDATE messages SET processed
\* = 1 WHERE id IN (message_ids).
mark_messages_processed_BySession(table, message_ids) ==
    LET sessions == {m.chat_table_id : m \in {r \in table : r.id \in message_ids}}
    IN  {IF m.chat_table_id \in sessions THEN [m EXCEPT !.processed = TRUE] ELSE m :
            m \in table}

mark_messages_processed(table, message_ids) ==
    {IF m.id \in message_ids THEN [m EXCEPT !.processed = TRUE] ELSE m : m \in table}

\* delete_agent (lines 416-443), one transaction: the agent's knowledge
\* chunks and logs, the messages of its chats, its chats and its own row.
delete_agent_KeepMessages(db, agent_id) ==
    [agents |-> {r \in db.agents : r.id # agent_id},
     rag_documents |-> {r \in db.rag_documents : r.agent_id # agent_id},
     logs |-> SelectSeq(db.logs, LAMBDA row : row.agent_id # agent_id),
     chats |-> {c \in db.chats : c.agent_id # agent_id},
     messages |-> db.messages]

delete_agent(db, agent_id) ==
    LET chat_ids == {c.id : c \in {x \in db.chats : x.agent_id = agent_id}}
    IN  [agents |-> {r \in db.agents : r.id # agent_id},
         rag_documents |-> {r \in db.rag_documents : r.agent_id # agent_id},
         logs |-> SelectSeq(db.logs, LAMBDA row : row.agent_id # agent_id),
         chats |-> {c \in db.chats : c.agent_id # agent_id},
         messages |-> {m \in db.messages : m.chat_table_id \notin chat_ids}]

\* The filenames of the model in the order SQLite sorts them (BINARY
\* collation), and the place of a filename in it.
Filenames == <<"a", "a.txt", "b", "kb">>
FilenameRank(filename) == CHOOSE i \in 1..Len(Filenames) : Filenames[i] = filename

\* ORDER BY filename, chunk_index: row a sorts before row b.
Precedes(a, b) ==
    \/ FilenameRank(a.filename) < FilenameRank(b.filename)
    \/ a.filename = b.filename /\ a.chunk_index < b.chunk_index

\* The orders ORDER BY filename, chunk_index can list rows in: rows that
\* agree on both come in an order SQL leaves open.
RECURSIVE Sorted(_)
Sorted(rows) ==
    IF rows = {} THEN {<<>>}
    ELSE UNION {{<<r>> \o l : l \in Sorted(rows \ {r})} :
                r \in {x \in rows : \A y \in rows : ~Precedes(y, x)}}

\* get_rag_documents (lines 472-492): SELECT ... WHERE agent_id = ? ORDER
\* BY filename, chunk_index.
get_rag_documents(table, agent_id) == Sorted({r \in table : r.agent_id = agent_id})

\* len(f"[{doc['filename']}]\n{doc['content']}\n"), line 514.
DocTextLen(doc) == Len(doc.filename) + 3 + doc.content.len + 1

\* A part of the context: the first chars characters of the formatted text
\* of a chunk, followed by suffix.
ContextPart(doc, chars, suffix) == [doc |-> doc.id, chars |-> chars, suffix |-> suffix]

\* Lines 516-521: the chunk that does not fit is cut to the remaining
\* budget when more than 100 characters remain, and the loop ends.
Truncated_From100(doc, remaining) ==
    IF remaining >= 100 THEN <<ContextPart(doc, remaining, "...")>> ELSE <<>>

Truncated(doc, remaining) ==
    IF remaining > 100 THEN <<ContextPart(doc, remaining, "...")>> ELSE <<>>

\* The loop of lines 513-524 from chunk i on.
RECURSIVE ContextParts(_, _, _, _)
ContextParts(docs, i, current_length, max_length) ==
    IF i > Len(docs) THEN <<>>
    ELSE IF current_length + DocTextLen(docs[i]) > max_length
    THEN Truncated(docs[i], max_length - current_length)
    ELSE <<ContextPart(docs[i], DocTextLen(docs[i]), "")>>
         \o ContextParts(docs, i + 1, current_length + DocTextLen(docs[i]), max_length)

\* The value get_rag_context returns: None, or "\n".join(context_parts).
NoContext == [null |-> TRUE, parts |-> <<>>]

\* get_rag_context (lines 494-526) on the rows get_rag_documents returned.
get_rag_context(docs, max_length) ==
    LET context_parts == ContextParts(docs, 1, 0, max_length)
    IN  IF docs = <<>> \/ context_parts = <<>> THEN NoContext
        ELSE [null |-> FALSE, parts |-> context_parts]

\* len() of the string returned: the parts and the "\n" between them.
RECURSIVE PartsLen(_)
PartsLen(parts) ==
    IF parts = <<>> THEN 0
    ELSE Head(parts).chars + Len(Head(parts).suffix) + PartsLen(Tail(parts))
ContextLen(context) == PartsLen(context.parts) + Len(context.parts) - 1

(***************************************************************************)
(* Bitrix24 REST client (bitrix_client.py, BitrixClient.call)              *)
(***************************************************************************)
\* What requests.post gives back: an HTTP status with a JSON body that
\* holds "result", holds "error" (with its code) or holds neither; status 0
\* stands for an exception of requests.post itself.
RestResponse(status, body, error) == [status |-> status, body |-> body, error |-> error]
NoRestResponse == RestResponse(0, None, None)

RestResponses ==
    {RestResponse(200, "result", None), RestResponse(200, "data", None),
     RestResponse(401, "error", "expired_token"), RestResponse(500, "data", None),
     RestResponse(0, "exception", None)}
    \cup {RestResponse(200, "error", code) :
            code \in {"expired_token", "invalid_token", "INVALID_TOKEN", "ACCESS_DENIED"}}

\* Line 152: the error codes that stand for a token that is no longer
\* valid, in a client in OAuth mode with a database.
ShouldRefresh_AnyMode(self, answer) ==
    /\ answer.error \in {"expired_token", "invalid_token", "INVALID_TOKEN"}
    /\ self.db

ShouldRefresh(self, answer) ==
    /\ answer.error \in {"expired_token", "invalid_token", "INVALID_TOKEN"}
    /\ self.mode = "oauth"
    /\ self.db

\* db.get_app(domain): no row, or a row with its refresh token and whether
\* the access token expires within 60 seconds.
NoApp == [installed |-> FALSE, refresh_token |-> None, expiring |-> FALSE]

\* _get_access_token (lines 47-65): "cached" and "stored" are the token the
\* client holds and the one of the app row, "refresh" asks for a new one,
\* "raise" is an exception.
get_access_token(self) ==
    IF self.access_token # None THEN "cached"
    ELSE IF self.mode = "oauth" /\ self.db
    THEN IF ~self.app.installed THEN "raise"
         ELSE IF self.app.expiring THEN "refresh"
         ELSE "stored"
    ELSE "raise"

\* One invocation of call: where it stands, the requests it has sent
\* ("request" for the REST method, "refresh" for a successful token
\* refresh, "refresh_failed" for one that was refused), the responses to
\* the first and second REST request, and how it ended.
RestCall(at, trace, first, second) ==
    [pc |-> at, trace |-> trace, first |-> first, second |-> second]

\* The slot of a call that is not in flight.
NoRequest == [op |-> None]

\* No call ended in the last step.
NoFinished == [op |-> None]

StoreIdle ==
    /\ rag_documents = {}
    /\ chats = {}
    /\ messages = {}
    /\ rowid = [rag_documents |-> 0, chats |-> 0, messages |-> 0]
    /\ requests = <<>>
    /\ finished = NoFinished

RagIdle == rag_max_length = 0 /\ rag_context = NotRun(NoContext)

NoClient == [mode |-> None, db |-> FALSE, access_token |-> None, app |-> NoApp]

CallIdle ==
    /\ client = NoClient
    /\ rest = RestCall("idle", <<>>, NoRestResponse, NoRestResponse)

DataIdle == StoreIdle /\ RagIdle /\ CallIdle /\ form = <<>>

\* No admin request was made.
NoApiResponse ==
    [endpoint |-> None, http |-> 0, inserted |-> 0, agent_id |-> 0, bot_id |-> NoBot]

AdminIdle ==
    /\ config = [domain |-> "t1", webhook_url |-> None]
    /\ next_id = 1
    /\ next_bot_id = 42
    /\ api_response = NoApiResponse

ToolInit ==
    /\ tool_call \in ToolCalls
    /\ tool_outcome = Pending
    /\ RetryIdle
    /\ HoursIdle
    /\ WebIdle
    /\ TurnIdle
    /\ AdminIdle
    /\ DataIdle

ExecuteTool ==
    /\ tool_outcome = Pending
    /\ tool_outcome' = execute_tool(tool_call.tool_name, tool_call.arguments,
                                    tool_call.bitrix_client, tool_call.chat_id,
                                    tool_call.timezone_ok)
    /\ UNCHANGED <<tool_call, ccVars, hoursVars, webVars, turnVars, adminVars, dataVars>>

SpecTool == ToolInit /\ [][ExecuteTool]_vars

\* C10: execute_tool never raises, whatever the tool name, the arguments and
\* the behaviour of the Bitrix24 client: a name outside the catalog yields
\* {success: false, error: "Unknown function: <name>"} without any client
\* call, and an exception of the client call or of reading the arguments
\* comes back as {success: false, error: <its message>}.
C10_ExecuteToolNeverRaises ==
    tool_outcome # Pending =>
        LET body == ExecuteToolBody(tool_call.tool_name, tool_call.arguments,
                                    tool_call.bitrix_client, tool_call.chat_id,
                                    tool_call.timezone_ok)
        IN  /\ tool_outcome.kind = "return"
            /\ tool_call.tool_name \notin ToolCatalog =>
                  /\ tool_outcome.value.success = FALSE
                  /\ tool_outcome.value.error = <<"Unknown function: ", tool_call.tool_name>>
                  /\ tool_outcome.calls = <<>>
            /\ body.kind = "raise" =>
                  /\ tool_outcome.value.success = FALSE
                  /\ tool_outcome.value.error = <<body.exc>>

\* A call whose client call was made and raised, reported as a failure.
C10_Witness ==
    /\ tool_outcome.kind = "return"
    /\ tool_call.tool_name = "crm_lead_add"
    /\ ~tool_call.bitrix_client.ok
    /\ Len(tool_outcome.calls) = 1
    /\ tool_outcome.value.error = <<"HTTP Error: 500">>

(***************************************************************************)
(* Chat completion driver: the retry loop, one inference call per step     *)
(***************************************************************************)
MinRetries == 0 - 1
MaxRetries == 3

RetryInit ==
    /\ cc_max_retries \in MinRetries..MaxRetries
    /\ cc = ChatCompletionStart
    /\ cc_history = <<>>
    /\ ToolIdle
    /\ HoursIdle
    /\ WebIdle
    /\ TurnIdle
    /\ AdminIdle
    /\ DataIdle

ChatCompletionTry ==
    /\ ChatCompletionLoops(cc, cc_max_retries)
    /\ \E outcome \in InferenceOutcomes :
        /\ cc' = ChatCompletionAttempt(cc, outcome, cc_max_retries)
        /\ cc_history' = Append(cc_history, outcome)
    /\ UNCHANGED <<cc_max_retries, toolVars, hoursVars, webVars, turnVars, adminVars, dataVars>>

ChatCompletionExit ==
    /\ cc.status = "running"
    /\ ~ChatCompletionLoops(cc, cc_max_retries)
    /\ cc' = ChatCompletionFallThrough(cc)
    /\ UNCHANGED <<cc_max_retries, cc_history, toolVars, hoursVars, webVars, turnVars, adminVars, dataVars>>

RetryNext == ChatCompletionTry \/ ChatCompletionExit

SpecRetry == RetryInit /\ [][RetryNext]_vars

\* The loop runs to its end: nothing suspends a call of chat_completion.
SpecRetryFair == SpecRetry /\ WF_vars(RetryNext)

\* An inference call failed: the call raised, or its response carried tool
\* call arguments that json.loads rejects.
AttemptFailed(outcome) ==
    \/ outcome.kind = "raise"
    \/ \E i \in 1..Len(outcome.tool_calls) : ~outcome.tool_calls[i].arguments.valid

FailureMessage(outcome) ==
    IF outcome.kind = "raise" THEN outcome.error ELSE "JSONDecodeError"

RetryBounded ==
    cc_max_retries >= 1 =>
        LET n == cc_max_retries
            k == Len(cc_history)
        IN  /\ cc.calls = k
            /\ cc.calls <= n
            /\ cc.status # "returned_none"
            /\ cc.status = "returned" <=>
                  (k >= 1 /\ ~AttemptFailed(cc_history[k]))
            /\ \A i \in 1..(k - 1) : AttemptFailed(cc_history[i])
            /\ cc.status = "returned" => cc.result = NormalizedResult(cc_history[k])
            /\ cc.status = "raised" <=>
                  (k = n /\ \A i \in 1..k : AttemptFailed(cc_history[i]))
            /\ cc.status = "raised" =>
                  cc.error = <<"OpenAI API failed: ", FailureMessage(cc_history[n])>>

\* C9: with maxRetries = n >= 1, chat_completion makes at most n inference
\* calls, returns the normalized result of the first call that succeeds and
\* makes no call after it, raises a terminal error carrying the message of
\* the n-th failure when all n calls fail, and always terminates.
C9_BoundedRetry == []RetryBounded /\ <>(cc.status # "running")

\* Two failures, then the third and last call fails too: terminal error.
C9_Witness ==
    /\ cc_max_retries = 3
    /\ cc.status = "raised"
    /\ cc.calls = 3
    /\ cc_history[2].kind = "raise" /\ cc_history[3].kind = "raise"
    /\ cc_history[2].error # cc_history[3].error
    /\ cc.error = <<"OpenAI API failed: ", cc_history[3].error>>

(***************************************************************************)
(* Working-hours gate: one evaluation on any agent and clock reading       *)
(***************************************************************************)
\* Entries of a schedule: "from" and "to" texts, either of which may be
\* missing from the entry.
ScheduleTimes == {HHMM(9, 0), HHMM(18, 0), HHMM(10, 30)}

DayEntries ==
    {<<>>} \cup {("from" :> f) : f \in ScheduleTimes}
           \cup {("to" :> t) : t \in ScheduleTimes}
           \cup {("from" :> f) @@ ("to" :> t) : f \in ScheduleTimes, t \in ScheduleTimes}

Schedules ==
    {<<>>} \cup {(d :> e) : d \in Weekdays, e \in DayEntries}
           \cup {("monday" :> e) @@ ("tuesday" :> f) : e \in DayEntries, f \in DayEntries}

ClockReadings ==
    [weekday : Weekdays, hour : {0, 8, 9, 10, 18, 19, 23}, minute : {0, 30, 59}]

HoursInit ==
    /\ hours_agent \in [working_hours_enabled : BOOLEAN, timezone_ok : BOOLEAN,
                        working_hours_schedule : Schedules]
    /\ hours_now \in ClockReadings
    /\ hours_result = NotCalled
    /\ ToolIdle
    /\ RetryIdle
    /\ WebIdle
    /\ TurnIdle
    /\ AdminIdle
    /\ DataIdle

IsWorkingHours ==
    /\ hours_result = NotCalled
    /\ hours_result' = Returned(is_working_hours(hours_agent, hours_now))
    /\ UNCHANGED <<hours_agent, hours_now, toolVars, ccVars, webVars, turnVars, adminVars, dataVars>>

SpecHours == HoursInit /\ [][IsWorkingHours]_vars

\* The time of day a "HH:MM" text denotes, in minutes.
MinuteOfDay(text) ==
    ((text[1] - 48) * 10 + (text[2] - 48)) * 60 + (text[4] - 48) * 10 + (text[5] - 48)


\* C8: is_working_hours is true whenever working hours are disabled; when
\* enabled it is false on a weekday absent from the schedule, and otherwise
\* true exactly when from <= t <= to for the agent-local time of day t, both
\* bounds included.  With {monday: 09:00-18:00}: Monday 10:00 is within
\* hours, Monday 19:00 and all of Tuesday are outside.
C8_WorkingHoursGate ==
    hours_result.done =>
        LET schedule == hours_agent.working_hours_schedule
            t == hours_now.hour * 60 + hours_now.minute
        IN  /\ ~hours_agent.working_hours_enabled => hours_result.value
            /\ (hours_agent.working_hours_enabled /\ hours_agent.timezone_ok) =>
                  /\ hours_now.weekday \notin DOMAIN schedule => ~hours_result.value
                  /\ hours_now.weekday \in DOMAIN schedule =>
                        LET entry == schedule[hours_now.weekday]
                            from == IF "from" \in DOMAIN entry
                                    THEN MinuteOfDay(entry["from"]) ELSE 0
                            to == IF "to" \in DOMAIN entry
                                  THEN MinuteOfDay(entry["to"]) ELSE 23 * 60 + 59
                        IN  hours_result.value <=> (from <= t /\ t <= to)
                  /\ schedule = MondayNineToSix =>
                        /\ (hours_now.weekday = "monday" /\ hours_now.hour = 10)
                              => hours_result.value
                        /\ (hours_now.weekday = "monday" /\ hours_now.hour = 19)
                              => ~hours_result.value
                        /\ hours_now.weekday = "tuesday" => ~hours_result.value

\* Monday 18:00 against {monday: 09:00-18:00}: the closing minute is inside.
C8_Witness ==
    /\ hours_result = Returned(TRUE)
    /\ hours_agent.working_hours_enabled /\ hours_agent.timezone_ok
    /\ hours_agent.working_hours_schedule = MondayNineToSix
    /\ hours_now = [weekday |-> "monday", hour |-> 18, minute |-> 0]

(***************************************************************************)
(* Bot webhook: requests to /webhook/bot, one in flight, while the admin   *)
(* API toggles agents                                                      *)
(***************************************************************************)
\* What a message event carries.  MESSAGE, TO_USER_ID, LINE_ID and the auth
\* domain are atoms; DIALOG_ID and CHAT_ID are texts (sequences of parts),
\* so that a "chat" prefix can be told.
ToUserIds == {"0", "42", "43", "abc", "[42]", "1e999"}
Field(name, values) == {<<>>} \cup {name :> v : v \in values}

InternalParams ==
    Field("MESSAGE", {""})
    \cup {("MESSAGE" :> "hello") @@ ("DIALOG_ID" :> <<"d1">>) @@ to :
            to \in Field("TO_USER_ID", ToUserIds)}
    \cup {("MESSAGE" :> "hello") @@ ("DIALOG_ID" :> <<"d1">>) @@ ("TO_USER_ID" :> "42")
            @@ ("CHAT_ID" :> <<"7">>)}

OpenlineParams ==
    Field("MESSAGE", {""})
    \cup {("MESSAGE" :> "hello") @@ ("CHAT_ID" :> <<"7">>) @@ line :
            line \in Field("LINE_ID", {"L1", "L2"})}
    \cup {("MESSAGE" :> "hello") @@ ("LINE_ID" :> "L1") @@ chat :
            chat \in {"CHAT_ID" :> <<"chat", "7">>, "DIALOG_ID" :> <<"d1">>}}
    \cup {("MESSAGE_TEXT" :> "hey") @@ ("LINE_ID" :> "L1") @@ ("CHAT_ID" :> <<"7">>)}

\* event, auth domain and PARAMS of the events sent.
Payloads ==
    [event : {"ONIMBOTJOINCHAT", "ONIMBOTWELCOMEMESSAGE", "ONIMBOTMESSAGEUPDATE",
              "ONIMBOTMESSAGEDELETE", "ONIMBOTDELETE", "ONAPPINSTALL", None},
     domain : {"t1"}, params : {<<>>}]
    \cup [event : InternalEvents, domain : {None, ""}, params : Field("MESSAGE", {"hello"})]
    \cup [event : InternalEvents, domain : Domains, params : InternalParams]
    \cup [event : OpenlineEvents, domain : {None}, params : Field("MESSAGE", {"hello"})]
    \cup [event : OpenlineEvents, domain : Domains, params : OpenlineParams]

\* The flat form of a payload: event=..., auth[domain]=...,
\* data[PARAMS][NAME]=...
FormOf(payload) ==
    LET keys == {<<"event">> : x \in {payload.event} \ {None}}
                \cup {<<"auth", "domain">> : x \in {payload.domain} \ {None}}
                \cup {<<"data", "PARAMS", name>> : name \in DOMAIN payload.params}
    IN  [key \in keys |->
            IF key = <<"event">> THEN payload.event
            ELSE IF Len(key) = 2 THEN payload.domain
            ELSE payload.params[key[3]]]

\* The same payload as a JSON body.
JsonOf(payload) ==
    Envelope(payload.event, payload.params, <<>>,
             Fold(FormOf(payload), {k \in DOMAIN FormOf(payload) : IsAuthKey(k)}, 2))

\* A form field is a text; a repeated key of a raw URL-encoded body gives a
\* list; only a JSON body carries a number.
ToUserIdOf(payload) == DictGet(payload.params, "TO_USER_ID", None)
FormPayloads == {q \in Payloads : ToUserIdOf(q) \notin {"[42]", "1e999"}}
RawPayloads == {q \in Payloads : ToUserIdOf(q) # "1e999"}

\* JSON bodies that are no envelope: a list or a text, and a mapping whose
\* data, PARAMS or auth value is no mapping.
NotAMapping == [EmptyEnvelope EXCEPT !.is_dict = FALSE]
MalformedBodies ==
    {NotAMapping}
    \cup {[JsonOf(q) EXCEPT !.data_ok = FALSE] :
            q \in {x \in Payloads : x.domain = "t1" /\ x.params = <<>>}}
    \cup {[JsonOf(q) EXCEPT !.auth_ok = FALSE, !.auth = <<>>] :
            q \in {x \in Payloads : x.domain = "t1" /\ x.params = <<>>}}

\* A request: request.form, request.get_json(silent=True) (EmptyEnvelope for
\* {} and for a body that is no JSON) and parse_qs of the raw body.
Request(form_data, json, raw_data) ==
    [form_data |-> form_data, json |-> json, raw_data |-> raw_data]
Requests ==
    {Request(<<>>, EmptyEnvelope, <<>>)}
    \cup {Request(FormOf(q), EmptyEnvelope, FormOf(q)) : q \in FormPayloads}
    \cup {Request(<<>>, EmptyEnvelope, FormOf(q)) : q \in RawPayloads}
    \cup {Request(<<>>, JsonOf(q), <<>>) : q \in Payloads}
    \cup {Request(<<>>, j, <<>>) : j \in MalformedBodies}

\* Lines 114-126 of bot_webhook.
ReceivedEnvelope(req) ==
    IF req.form_data # <<>> THEN parse_bitrix_form_data(req.form_data)
    ELSE IF req.json # EmptyEnvelope THEN req.json
    ELSE IF req.raw_data # <<>> THEN parse_bitrix_form_data(req.raw_data)
    ELSE EmptyEnvelope

\* The locals of the message handlers (lines 190-198 and 299-307).
Domain(ev) == DictGet(ev.auth, "domain", None)
MessageText(ev) ==
    IF ev.event \in OpenlineEvents
    THEN PyOr(DictGet(ev.params, "MESSAGE", None), DictGet(ev.params, "MESSAGE_TEXT", None))
    ELSE DictGet(ev.params, "MESSAGE", None)
ChatId(ev) == DictGet(ev.params, "CHAT_ID", NoId)
DialogId(ev) ==
    IF ev.event \in OpenlineEvents
    THEN TargetDialogId(IF DictGet(ev.params, "DIALOG_ID", NoId) # NoId
                        THEN DictGet(ev.params, "DIALOG_ID", NoId) ELSE ChatId(ev),
                        ChatId(ev))
    ELSE DictGet(ev.params, "DIALOG_ID", NoId)
LineId(ev) == DictGet(ev.params, "LINE_ID", None)

Call(op, dialog_id) == [op |-> op, dialog_id |-> dialog_id]

\* What the turn of a webhook reply meets.
Failure == [kind |-> "raise", error |-> "timeout", content |-> NoText, tool_calls |-> <<>>]
TextReply ==
    [kind |-> "response", error |-> None, content |-> <<"Hi there!">>, tool_calls |-> <<>>]
ToolReply ==
    [kind |-> "response", error |-> None, content |-> NoText,
     tool_calls |-> <<CHOOSE c \in RawToolCalls : c.id = "call_1">>]
ChatControlReplies ==
    {[kind |-> "response", error |-> None, content |-> NoText,
      tool_calls |-> <<[id |-> "call_1", name |-> name,
                        arguments |-> [valid |-> TRUE,
                                       value |-> [is_dict |-> TRUE, keys |-> {"user_id"}]]]>>] :
        name \in {"transfer_chat_to_user", "disconnect_agent_from_chat"}}
TurnEnvs ==
    [pre_error : {None}, outcomes : {<<TextReply>>, <<Failure, Failure, Failure>>},
     clients : {<<>>}, timezone_ok : {TRUE}]
    \cup [pre_error : {None}, outcomes : {<<r>> : r \in ChatControlReplies},
          clients : {<<c>> : c \in {b \in BitrixClients : b.ok}}, timezone_ok : {TRUE}]
    \cup [pre_error : {None}, outcomes : {<<ToolReply>>},
          clients : {<<c>> : c \in BitrixClients}, timezone_ok : {TRUE}]
    \cup [pre_error : {"OperationalError"}, outcomes : {<<>>}, clients : {<<>>},
          timezone_ok : {TRUE}]

\* The handler reaches a return statement with its locals as they are.
Respond(r) == pc' = "done" /\ response' = r

\* The handler raised: the except blocks (lines 172-176, 281-285, 393-397).
Fail(exc) == Respond(ServerError(exc))

\* bot_webhook up to the first database read: lines 97-176, 186-214 and
\* 296-330.
BotWebhook ==
    /\ pc = "idle"
    /\ Len(logs) < MaxLogs
    /\ \E req \in Requests :
        LET ev == ReceivedEnvelope(req)
            coerced == CoerceBotId(DictGet(ev.params, "TO_USER_ID", None))
            message == ev.is_dict /\ ev.event \in InternalEvents \cup OpenlineEvents
        IN  /\ event_data' = ev
            /\ all_agents' = <<>>
            /\ agent' = NoAgent
            /\ calls' = <<>>
            /\ turn' = NoTurn
            /\ bot_id_int' = IF message /\ ev.event \in InternalEvents /\ ev.data_ok
                                /\ coerced.exc = None
                             THEN coerced.value ELSE NoBot
            /\ IF ~ev.is_dict THEN Fail("AttributeError")
               ELSE IF ev.event \in LifecycleEvents THEN Respond(Status("ok"))
               ELSE IF ~message THEN Respond(Response(200, "ok", ev.event, Absent))
               ELSE IF ~ev.data_ok \/ ~ev.auth_ok THEN Fail("AttributeError")
               ELSE IF ~Truthy(Domain(ev)) THEN Respond(Status("no_domain"))
               ELSE IF ~Truthy(MessageText(ev)) THEN Respond(Status("no_message"))
               ELSE IF ev.event \in OpenlineEvents
               THEN /\ pc' = IF Truthy(LineId(ev)) THEN "lookup" ELSE "fallback"
                    /\ UNCHANGED response
               ELSE IF coerced.exc # None THEN Fail(coerced.exc)
               ELSE /\ pc' = IF coerced.value # NoBot THEN "lookup" ELSE "fallback"
                    /\ UNCHANGED response
    /\ UNCHANGED <<agents, logs, now, toolVars, ccVars, hoursVars, turnVars, adminVars, dataVars>>

\* The handler without the is_active check.
ActiveGate_Open(row) == pc' = "reply" /\ UNCHANGED response

\* "if not agent.get('is_active')" (lines 237-239 and 353-355), reached
\* with the row the router holds.
ActiveGate(row) ==
    IF row.is_active THEN pc' = "reply" /\ UNCHANGED response
    ELSE Respond(Status("agent_inactive"))

\* The exact lookup (lines 217-219 and 332-334).  The query can fail.
Lookup ==
    /\ pc = "lookup"
    /\ LET openline == event_data.event \in OpenlineEvents
           op == IF openline THEN "get_agent_by_openline" ELSE "get_agent_by_bot_id"
           found == IF openline
                    THEN get_agent_by_openline(agents, LineId(event_data), Domain(event_data))
                    ELSE get_agent_by_bot_id(agents, bot_id_int, Domain(event_data))
       IN  /\ calls' = Append(calls, Call(op, NoId))
           /\ \/ Fail("OperationalError") /\ UNCHANGED agent
              \/ \E row \in found :
                    /\ agent' = row
                    /\ IF row = NoAgent THEN pc' = "fallback" /\ UNCHANGED response
                       ELSE ActiveGate(row)
    /\ UNCHANGED <<agents, logs, event_data, bot_id_int, all_agents, turn, now,
                   toolVars, ccVars, hoursVars, turnVars, adminVars, dataVars>>

\* The fallback (lines 221-233 and 336-349).
Fallback ==
    /\ pc = "fallback"
    /\ calls' = Append(calls, Call("get_agents", NoId))
    /\ \/ Fail("OperationalError") /\ UNCHANGED <<agent, all_agents>>
       \/ \E listing \in get_agents(agents, Domain(event_data)) :
            LET row == IF event_data.event \in OpenlineEvents
                       THEN FallbackOpenline(listing) ELSE FallbackWithBot(listing)
            IN  /\ all_agents' = listing
                /\ agent' = row
                /\ IF row = NoAgent THEN Respond(Status("agent_not_found"))
                   ELSE ActiveGate(row)
    /\ UNCHANGED <<agents, logs, event_data, bot_id_int, turn, now,
                   toolVars, ccVars, hoursVars, turnVars, adminVars, dataVars>>

\* The rest of the handler (lines 241-279 and 357-391): typing indicator,
\* turn, send, log.  A failing typing or send call is swallowed and leaves
\* no trace in the handler; a failing add_log (log_ok = FALSE) is not.
Reply ==
    /\ pc = "reply"
    /\ \E env \in TurnEnvs, weekday \in Weekdays, log_ok \in BOOLEAN :
        LET dialog_id == DialogId(event_data)
            action == IF event_data.event \in OpenlineEvents
                      THEN "openline_message" ELSE "message_received"
        IN  /\ now' = weekday
            /\ turn' = process_with_openai(agent, ChatId(event_data), env)
            /\ calls' = calls \o <<Call("bot_typing_start", dialog_id),
                                   Call("process_with_openai", dialog_id),
                                   Call("bot_send_message", dialog_id),
                                   Call("add_log", NoId)>>
            /\ IF log_ok
               THEN /\ logs' = Append(logs, LogRow(agent.id, <<action>>, NoText, TRUE, NoText))
                    /\ Respond(Status("ok"))
               ELSE /\ UNCHANGED logs
                    /\ Fail("OperationalError")
    /\ UNCHANGED <<agents, event_data, bot_id_int, all_agents, agent,
                   toolVars, ccVars, hoursVars, turnVars, adminVars, dataVars>>

\* The response is sent and the handler's locals are gone.
SendResponse ==
    /\ pc = "done"
    /\ pc' = "idle"
    /\ event_data' = EmptyEnvelope
    /\ bot_id_int' = NoBot
    /\ all_agents' = <<>>
    /\ agent' = NoAgent
    /\ calls' = <<>>
    /\ turn' = NoTurn
    /\ now' = "monday"
    /\ response' = NoResponse
    /\ UNCHANGED <<agents, logs, toolVars, ccVars, hoursVars, turnVars, adminVars, dataVars>>

\* api_toggle_agent (app.py lines 303-321) for a row of the tenant named.
ApiToggleAgent ==
    /\ \E row \in agents :
        agents' = (agents \ {row}) \cup {[row EXCEPT !.is_active = ~row.is_active]}
    /\ UNCHANGED <<logs, reqVars, toolVars, ccVars, hoursVars, turnVars, adminVars, dataVars>>

WebhookInit ==
    /\ agents \in AgentTables
    /\ logs = <<>>
    /\ pc = "idle"
    /\ event_data = EmptyEnvelope
    /\ bot_id_int = NoBot
    /\ all_agents = <<>>
    /\ agent = NoAgent
    /\ calls = <<>>
    /\ turn = NoTurn
    /\ now = "monday"
    /\ response = NoResponse
    /\ ToolIdle
    /\ RetryIdle
    /\ HoursIdle
    /\ TurnIdle
    /\ AdminIdle
    /\ DataIdle

WebhookNext == BotWebhook \/ Lookup \/ Fallback \/ Reply \/ SendResponse \/ ApiToggleAgent

SpecWebhook == WebhookInit /\ [][WebhookNext]_vars

(***************************************************************************)
(* Turn: both orchestrators on one input                                   *)
(***************************************************************************)
MaxToolCalls == 2

\* Tool calls as the API returns them, each with arguments that parse.
TurnToolCalls ==
    {[id |-> "call_1", name |-> "crm_lead_add",
      arguments |-> [valid |-> TRUE, value |-> [is_dict |-> TRUE, keys |-> {"name"}]]],
     [id |-> "call_2", name |-> "crm_deal_add",
      arguments |-> [valid |-> TRUE, value |-> [is_dict |-> TRUE, keys |-> {"title"}]]],
     [id |-> "call_3", name |-> "crm_deal_get",
      arguments |-> [valid |-> TRUE, value |-> [is_dict |-> TRUE, keys |-> {}]]],
     [id |-> "call_4", name |-> "disconnect_agent_from_chat",
      arguments |-> [valid |-> TRUE, value |-> [is_dict |-> TRUE, keys |-> {}]]],
     [id |-> "call_5", name |-> "crm_lead_delete",
      arguments |-> [valid |-> TRUE, value |-> [is_dict |-> TRUE, keys |-> {}]]],
     [id |-> "call_6", name |-> "get_todays_date",
      arguments |-> [valid |-> TRUE, value |-> [is_dict |-> TRUE, keys |-> {}]]]}

\* Sequences of at most n elements of a set.
SeqUpTo(elements, n) == UNION {[1..k -> elements] : k \in 0..n}

\* The model's answers: optional text (None, "" or a text) with tool calls.
TurnResponses ==
    [kind : {"response"}, error : {None}, content : {NoText, <<>>, <<"Hi there!">>},
     tool_calls : SeqUpTo(TurnToolCalls, MaxToolCalls)]

MondayFromNine == "monday" :> ("from" :> HHMM(9, 0))

TurnAgent(inbound_only, enabled, schedule, timezone_ok) ==
    [id |-> 1, inbound_only |-> inbound_only, working_hours_enabled |-> enabled,
     working_hours_schedule |-> schedule, timezone_ok |-> timezone_ok,
     max_retries |-> 3]

AtTen(weekday) == [weekday |-> weekday, hour |-> 10, minute |-> 0]

\* Turns of an agent without working hours in which every step succeeds
\* except, possibly, the inference call and the tool calls.
PlainTurns ==
    {[agent |-> TurnAgent(inbound_only, FALSE, MondayNineToSix, TRUE),
      chat_id |-> chat_id, now |-> AtTen("monday"), messages |-> 1, chat |-> chat,
      outcomes |-> outcomes, clients |-> clients, faults |-> {}] :
        inbound_only \in BOOLEAN, chat_id \in ChatIds,
        chat \in {ChatRow("active", None, None), ChatRow("active", "100", None)},
        outcomes \in {<<r>> : r \in TurnResponses} \cup {<<Failure, Failure, Failure>>},
        clients \in [1..MaxToolCalls -> BitrixClients]}

\* Turns in which the gate, the unread messages and the steps vary.
FaultSets ==
    {{}} \cup {{step} : step \in TurnSteps}
         \cup {{step, "error_log"} : step \in TurnSteps}

FaultyTurns ==
    {[agent |-> TurnAgent(TRUE, enabled, schedule, timezone_ok),
      chat_id |-> <<"7">>, now |-> AtTen(weekday), messages |-> unread,
      chat |-> ChatRow("active", None, None), outcomes |-> outcomes,
      clients |-> [i \in 1..MaxToolCalls |-> CHOOSE c \in BitrixClients : c.ok],
      faults |-> faults] :
        enabled \in BOOLEAN, schedule \in {MondayNineToSix, MondayFromNine},
        timezone_ok \in BOOLEAN, weekday \in Weekdays, unread \in {0, 1},
        outcomes \in {<<TextReply>>, <<ToolReply>>, <<Failure, Failure, Failure>>},
        faults \in FaultSets}

TurnInputs == PlainTurns \cup FaultyTurns

TurnInit ==
    /\ turn_input \in TurnInputs
    /\ pwo_result = NotRun(NoTurn)
    /\ pcm_result = NotRun(TurnState(NoTurnInput.chat))
    /\ offered = NotRun(<<>>)
    /\ ToolIdle
    /\ RetryIdle
    /\ HoursIdle
    /\ WebIdle
    /\ AdminIdle
    /\ DataIdle

\* What process_with_openai meets on the input: its try block spans the
\* time-zone lookup and the knowledge-base read.
WebhookEnv(input) ==
    [pre_error |-> IF ~input.agent.timezone_ok THEN "UnknownTimeZoneError"
                   ELSE IF "get_rag_context" \in input.faults THEN "OperationalError"
                   ELSE None,
     outcomes |-> input.outcomes, clients |-> input.clients,
     timezone_ok |-> input.agent.timezone_ok]

ProcessWithOpenai ==
    /\ ~pwo_result.ran
    /\ pwo_result' = Ran(process_with_openai(turn_input.agent, turn_input.chat_id,
                                             WebhookEnv(turn_input)))
    /\ UNCHANGED <<turn_input, pcm_result, offered, toolVars, ccVars, hoursVars, webVars, adminVars, dataVars>>

ProcessChatMessages ==
    /\ ~pcm_result.ran
    /\ pcm_result' = Ran(process_chat_messages(turn_input.agent, turn_input.chat_id,
                                               turn_input))
    /\ UNCHANGED <<turn_input, pwo_result, offered, toolVars, ccVars, hoursVars, webVars, adminVars, dataVars>>

TurnNext == ProcessWithOpenai \/ ProcessChatMessages

SpecTurn == TurnInit /\ [][TurnNext]_vars

(***************************************************************************)
(* Turn of an agent with enabled tools                                     *)
(***************************************************************************)
\* agent.get('enabled_tools', []): the stored list, names in the order the
\* console sent them, names outside the catalog included.
EnabledLists ==
    {<<>>, <<"crm_lead_add">>, <<"get_todays_date", "crm_deal_add", "crm_lead_add">>,
     <<"crm_lead_delete", "crm_deal_get">>}
EnabledTools(row) == IF "enabled_tools" \in DOMAIN row THEN row.enabled_tools ELSE <<>>

\* Turns of such an agent in which every step succeeds and the model
\* answers with any tool calls.
EnabledTurns ==
    {[agent |-> [TurnAgent(FALSE, FALSE, MondayNineToSix, TRUE) EXCEPT !.id = 1]
                    @@ [enabled_tools |-> tool_names],
      chat_id |-> <<"7">>, now |-> AtTen("monday"), messages |-> 1,
      chat |-> ChatRow("active", None, None), outcomes |-> <<r>>,
      clients |-> [i \in 1..MaxToolCalls |-> CHOOSE c \in BitrixClients : c.ok],
      faults |-> {}] :
        tool_names \in EnabledLists, r \in TurnResponses}

EnabledInit ==
    /\ turn_input \in EnabledTurns
    /\ pwo_result = NotRun(NoTurn)
    /\ pcm_result = NotRun(TurnState(NoTurnInput.chat))
    /\ offered = NotRun(<<>>)
    /\ ToolIdle
    /\ RetryIdle
    /\ HoursIdle
    /\ WebIdle
    /\ AdminIdle
    /\ DataIdle

\* tools = get_enabled_tools(agent.get('enabled_tools', []))
\* (webhook_handler.py line 425, message_processor.py line 90).
GetEnabledTools ==
    /\ ~offered.ran
    /\ offered' = Ran(get_enabled_tools(EnabledTools(turn_input.agent)))
    /\ UNCHANGED <<turn_input, pwo_result, pcm_result, toolVars, ccVars, hoursVars,
                   webVars, adminVars, dataVars>>

EnabledNext == GetEnabledTools \/ ProcessWithOpenai \/ ProcessChatMessages

SpecEnabled == EnabledInit /\ [][EnabledNext]_vars

(***************************************************************************)
(* Management console: agent create, update, toggle, delete (app.py)       *)
(***************************************************************************)
MaxAgentId == 3

\* Config.BITRIX_DOMAIN and Config.BITRIX_WEBHOOK_URL as the deployment
\* defines them: the attribute can be missing from class Config (reading it
\* raises AttributeError), empty, or set.
Configs ==
    [domain : {Absent, "", "t1"}, webhook_url : {Absent, None, "https://hook"}]

\* BitrixClient(domain=domain, db=db), and BitrixClient() when that raises
\* (bitrix_client.py lines 30-43): line 33 reads Config.BITRIX_WEBHOOK_URL
\* in every mode; without a domain the client needs the webhook URL.
ClientConstructed(cfg, domain) ==
    /\ cfg.webhook_url # Absent
    /\ Truthy(domain) \/ Truthy(cfg.webhook_url)

\* The row db.create_agent inserts (database.py lines 210-251) for a
\* request that names no bot and no open line.
ProvisionalRow(id, domain) ==
    [id |-> id, domain |-> domain, bot_id |-> NoBot, open_line_id |-> None,
     is_active |-> TRUE, bot_type |-> "openline", working_hours_enabled |-> FALSE,
     working_hours_schedule |-> <<>>, timezone_ok |-> TRUE, max_retries |-> 3,
     created_at |-> 1]

\* agent_data.get(key, current[key]) of db.update_agent.
Updated(agent_data, key, current) ==
    IF key \in DOMAIN agent_data THEN agent_data[key] ELSE current

\* The columns the UPDATE statement of db.update_agent sets (lines 378-386),
\* updated_at left out: no row of the model carries it.
UpdateColumns ==
    {"name", "description", "system_prompt", "rag_files", "openai_api_key",
     "openai_model", "temperature", "audio_transcription", "max_retries",
     "inbound_only", "message_buffer_time", "timezone", "working_hours_enabled",
     "working_hours_schedule", "enabled_tools", "is_active", "open_line_id",
     "bot_id", "bot_type"}

\* An UPDATE that writes 1 to is_active when the mapping does not list it.
update_agent_ActiveByDefault(row, agent_data) ==
    [key \in DOMAIN row |->
        IF key = "is_active" THEN Updated(agent_data, key, TRUE)
        ELSE IF key \in UpdateColumns THEN Updated(agent_data, key, row[key])
        ELSE row[key]]

\* db.update_agent (database.py lines 363-414) on the row it finds: every
\* column of the statement is written, with the value of the mapping or
\* the value read.
update_agent(row, agent_data) ==
    [key \in DOMAIN row |->
        IF key \in UpdateColumns THEN Updated(agent_data, key, row[key]) ELSE row[key]]

ApiResponse(endpoint, http, inserted, agent_id, bot_id) ==
    [endpoint |-> endpoint, http |-> http, inserted |-> inserted,
     agent_id |-> agent_id, bot_id |-> bot_id]

\* db.delete_agent(agent_id) in the except block of api_create_agent
\* (app.py line 242): the row is removed unless the delete itself raises.
Compensate(table, id, delete_ok) ==
    IF delete_ok THEN {r \in table : r.id # id} ELSE table

\* api_create_agent (app.py lines 164-248).  complete: the request names
\* the NOT NULL columns; registered, update_ok, delete_ok: whether
\* imbot.register, db.update_agent and db.delete_agent succeed.
ApiCreateAgent ==
    /\ next_id <= MaxAgentId
    /\ \E complete, registered, update_ok, delete_ok \in BOOLEAN :
        LET domain == config.domain
            row == ProvisionalRow(next_id, domain)
            inserted == agents \cup {row}
            bound == update_agent(row, ("bot_id" :> next_bot_id)
                                        @@ ("bot_type" :> "openline")
                                        @@ ("is_active" :> TRUE))
        IN  IF domain = Absent
            THEN /\ api_response' = ApiResponse("create", 500, 0, 0, NoBot)
                 /\ UNCHANGED <<agents, next_id, next_bot_id>>
            ELSE IF Cardinality({r \in agents : r.domain = domain}) >= MAX_AGENTS
            THEN /\ api_response' = ApiResponse("create", 400, 0, 0, NoBot)
                 /\ UNCHANGED <<agents, next_id, next_bot_id>>
            ELSE IF ~complete
            THEN /\ api_response' = ApiResponse("create", 500, 0, 0, NoBot)
                 /\ UNCHANGED <<agents, next_id, next_bot_id>>
            ELSE IF ~ClientConstructed(config, domain)
            THEN /\ agents' = inserted
                 /\ next_id' = next_id + 1
                 /\ api_response' = ApiResponse("create", 500, next_id, 0, NoBot)
                 /\ UNCHANGED next_bot_id
            ELSE IF ~registered
            THEN /\ agents' = Compensate(inserted, next_id, delete_ok)
                 /\ next_id' = next_id + 1
                 /\ api_response' = ApiResponse("create", 500, next_id, 0, NoBot)
                 /\ UNCHANGED next_bot_id
            ELSE IF ~update_ok
            THEN /\ agents' = Compensate(inserted, next_id, delete_ok)
                 /\ next_id' = next_id + 1
                 /\ next_bot_id' = next_bot_id + 1
                 /\ api_response' = ApiResponse("create", 500, next_id, 0, NoBot)
            ELSE /\ agents' = agents \cup {bound}
                 /\ next_id' = next_id + 1
                 /\ next_bot_id' = next_bot_id + 1
                 /\ api_response' = ApiResponse("create", 200, next_id, next_id, next_bot_id)
    /\ UNCHANGED <<config, logs, reqVars, toolVars, ccVars, hoursVars, turnVars, dataVars>>

\* The JSON bodies of an update: any of the keys bot_id, is_active and
\* open_line_id.
UpdateRequests ==
    {<<>>} \cup {"bot_id" :> b : b \in {NoBot, 42, 43}}
           \cup {"is_active" :> a : a \in BOOLEAN}
           \cup {"open_line_id" :> l : l \in {None, "L1"}}

\* api_update_agent (app.py lines 251-268) with the domain of the row
\* addressed; an id without a row is answered 404.
ApiUpdateAgent ==
    /\ \E id \in 1..MaxAgentId, data \in UpdateRequests :
        IF \E r \in agents : r.id = id
        THEN LET row == CHOOSE r \in agents : r.id = id
             IN  /\ agents' = (agents \ {row}) \cup {update_agent(row, data)}
                 /\ api_response' = ApiResponse("update", 200, 0, id, NoBot)
        ELSE /\ api_response' = ApiResponse("update", 404, 0, id, NoBot)
             /\ UNCHANGED agents
    /\ UNCHANGED <<config, next_id, next_bot_id, logs, reqVars, toolVars, ccVars,
                   hoursVars, turnVars, dataVars>>

\* api_delete_agent (app.py lines 271-300): a failing unregister is
\* swallowed, a client that cannot be constructed is not.
ApiDeleteAgent ==
    /\ \E id \in 1..MaxAgentId :
        IF ~\E r \in agents : r.id = id
        THEN /\ api_response' = ApiResponse("delete", 404, 0, id, NoBot)
             /\ UNCHANGED agents
        ELSE IF config.domain = Absent \/ ~ClientConstructed(config, config.domain)
        THEN /\ api_response' = ApiResponse("delete", 500, 0, id, NoBot)
             /\ UNCHANGED agents
        ELSE /\ agents' = {r \in agents : r.id # id}
             /\ api_response' = ApiResponse("delete", 200, 0, id, NoBot)
    /\ UNCHANGED <<config, next_id, next_bot_id, logs, reqVars, toolVars, ccVars,
                   hoursVars, turnVars, dataVars>>

\* The console starts on an empty table agents.
AdminInit ==
    /\ config \in Configs
    /\ next_id = 1
    /\ next_bot_id = 42
    /\ api_response = NoApiResponse
    /\ ToolIdle
    /\ RetryIdle
    /\ HoursIdle
    /\ WebIdle
    /\ TurnIdle
    /\ DataIdle

AdminNext == ApiCreateAgent \/ ApiUpdateAgent \/ ApiToggleAgent \/ ApiDeleteAgent

SpecAdmin == AdminInit /\ [][AdminNext]_vars

(***************************************************************************)
(* Data store: uploads, sessions, messages and turns in flight             *)
(***************************************************************************)
MaxRequests == 2
MaxRowId == 2
MaxLogRows == 2
MaxInserts == 6

\* chunk_size of api_rag_upload (app.py line 459).
chunk_size == 2000

\* [content[i:i+chunk_size] for i in range(0, len(content), chunk_size)]
\* (app.py line 460) for a file of the given length.
Chunks(file) ==
    [k \in 1..((file.len + chunk_size - 1) \div chunk_size) |->
        [file |-> file.text, from |-> (k - 1) * chunk_size,
         len |-> IF k * chunk_size <= file.len THEN chunk_size
                 ELSE file.len - (k - 1) * chunk_size]]

\* The files uploaded: an empty one, one of one chunk, one of two chunks.
KnowledgeFiles ==
    {[text |-> "v0", len |-> 0], [text |-> "v1", len |-> 1500],
     [text |-> "v2", len |-> 2500]}

\* What the turns of the store meet: an agent within its hours, a reply or
\* a failing inference call, and a write of the processed flags that
\* succeeds or raises.
TurnEnv(outcomes, faults) ==
    [now |-> AtTen("monday"), messages |-> 1, chat |-> ChatRow("active", None, None),
     outcomes |-> outcomes,
     clients |-> [i \in 1..MaxToolCalls |-> CHOOSE c \in BitrixClients : c.ok],
     faults |-> faults]

StoreTurns ==
    {TurnEnv(outcomes, faults) :
        outcomes \in {<<TextReply>>, <<Failure, Failure, Failure>>},
        faults \in {{}, {"mark_messages_processed"}}}

\* self.agent of the MessageProcessor that serves a session.
StoreAgent(agent_id) ==
    [TurnAgent(FALSE, FALSE, MondayNineToSix, TRUE) EXCEPT !.id = agent_id]

Free(slot) == requests[slot] = NoRequest
Start(slot, request) ==
    /\ requests' = [requests EXCEPT ![slot] = request]
    /\ finished' = NoFinished
Step(slot, request) == Start(slot, request)
End(slot, result) ==
    /\ requests' = [requests EXCEPT ![slot] = NoRequest]
    /\ finished' = result

otherVars == <<toolVars, ccVars, hoursVars, reqVars, turnVars, adminVars,
               ragVars, callVars, form>>

\* api_rag_upload (app.py lines 431-481) up to db.get_agent: 404 without a
\* row of that id.
UploadGetAgent(slot) ==
    /\ Free(slot)
    /\ \E agent_id \in AgentIds, filename \in {"a.txt"}, file \in KnowledgeFiles :
        IF \E r \in agents : r.id = agent_id
        THEN Start(slot, [op |-> "api_rag_upload", pc |-> "delete", agent_id |-> agent_id,
                          filename |-> filename, file |-> file, i |-> 0])
        ELSE End(slot, [op |-> "api_rag_upload", http |-> 404])
    /\ UNCHANGED <<agents, logs, rag_documents, chats, messages, rowid, otherVars>>

\* db.delete_rag_documents_by_filename(agent_id, filename), line 456.
UploadDelete(slot) ==
    /\ ~Free(slot)
    /\ requests[slot].op = "api_rag_upload"
    /\ requests[slot].pc = "delete"
    /\ LET call == requests[slot]
       IN  /\ rag_documents' =
                 delete_rag_documents_by_filename(rag_documents, call.agent_id, call.filename)
           /\ IF Len(Chunks(call.file)) = 0
              THEN End(slot, [op |-> "api_rag_upload", http |-> 200])
              ELSE Step(slot, [call EXCEPT !.pc = "insert"])
    /\ UNCHANGED <<agents, logs, chats, messages, rowid, otherVars>>

\* One pass of the loop of lines 463-471: db.add_rag_document for chunk i.
UploadInsert(slot) ==
    /\ ~Free(slot)
    /\ requests[slot].op = "api_rag_upload"
    /\ requests[slot].pc = "insert"
    /\ rowid.rag_documents < MaxRowId
    /\ LET call == requests[slot]
           doc_id == rowid.rag_documents + 1
       IN  /\ rag_documents' = rag_documents \cup
                 {RagRow(doc_id, call.agent_id, call.filename,
                         Chunks(call.file)[call.i + 1], call.i)}
           /\ rowid' = [rowid EXCEPT !.rag_documents = doc_id]
           /\ IF call.i + 1 = Len(Chunks(call.file))
              THEN End(slot, [op |-> "api_rag_upload", http |-> 200])
              ELSE Step(slot, [call EXCEPT !.i = call.i + 1])
    /\ UNCHANGED <<agents, logs, chats, messages, otherVars>>

\* api_rag_delete (app.py lines 519-541): db.get_agent, then the delete.
RagDeleteGetAgent(slot) ==
    /\ Free(slot)
    /\ \E agent_id \in AgentIds, filename \in {"a.txt"} :
        IF \E r \in agents : r.id = agent_id
        THEN Start(slot, [op |-> "api_rag_delete", agent_id |-> agent_id,
                          filename |-> filename])
        ELSE End(slot, [op |-> "api_rag_delete", http |-> 404])
    /\ UNCHANGED <<agents, logs, rag_documents, chats, messages, rowid, otherVars>>

RagDeleteDelete(slot) ==
    /\ ~Free(slot)
    /\ requests[slot].op = "api_rag_delete"
    /\ rag_documents' = delete_rag_documents_by_filename(
                            rag_documents, requests[slot].agent_id, requests[slot].filename)
    /\ End(slot, [op |-> "api_rag_delete", http |-> 200])
    /\ UNCHANGED <<agents, logs, chats, messages, rowid, otherVars>>

\* get_or_create_chat (database.py lines 550-573): the SELECT.  A row found
\* is returned at once.
GetOrCreateChatSelect(slot) ==
    /\ Free(slot)
    /\ \E agent_id \in AgentIds, chat_id \in {"c1"} :
        LET rows == {c \in chats : c.agent_id = agent_id /\ c.chat_id = chat_id}
        IN  IF rows # {}
            THEN End(slot, [op |-> "get_or_create_chat", agent_id |-> agent_id,
                            chat_id |-> chat_id, exc |-> None, created |-> FALSE,
                            chat_table_id |-> (CHOOSE c \in rows : TRUE).id])
            ELSE Start(slot, [op |-> "get_or_create_chat", agent_id |-> agent_id,
                              chat_id |-> chat_id])
    /\ UNCHANGED <<agents, logs, rag_documents, chats, messages, rowid, otherVars>>

\* The INSERT of a call whose SELECT found no row: UNIQUE(agent_id,
\* chat_id) (line 141) rejects it with sqlite3.IntegrityError when another
\* call has inserted the pair since.
GetOrCreateChatInsert(slot) ==
    /\ ~Free(slot)
    /\ requests[slot].op = "get_or_create_chat"
    /\ LET call == requests[slot]
           chat_table_id == rowid.chats + 1
       IN  IF \E c \in chats : c.agent_id = call.agent_id /\ c.chat_id = call.chat_id
           THEN /\ End(slot, [op |-> "get_or_create_chat", agent_id |-> call.agent_id,
                              chat_id |-> call.chat_id, exc |-> "IntegrityError",
                              created |-> FALSE, chat_table_id |-> 0])
                /\ UNCHANGED <<chats, rowid>>
           ELSE /\ rowid.chats < MaxRowId
                /\ chats' = chats \cup {SessionRow(chat_table_id, call.agent_id, call.chat_id)}
                /\ rowid' = [rowid EXCEPT !.chats = chat_table_id]
                /\ End(slot, [op |-> "get_or_create_chat", agent_id |-> call.agent_id,
                              chat_id |-> call.chat_id, exc |-> None, created |-> TRUE,
                              chat_table_id |-> chat_table_id])
    /\ UNCHANGED <<agents, logs, rag_documents, messages, otherVars>>

\* add_message (database.py lines 603-625) for a session.
AddMessage ==
    /\ rowid.messages < MaxRowId
    /\ \E chat \in chats :
        /\ messages' = messages \cup {MessageRow(rowid.messages + 1, chat.id)}
        /\ rowid' = [rowid EXCEPT !.messages = rowid.messages + 1]
        /\ finished' = [op |-> "add_message", chat_table_id |-> chat.id]
    /\ UNCHANGED <<agents, logs, rag_documents, chats, requests, otherVars>>

\* add_log (database.py lines 680-700) for an agent.
AddLogRow ==
    /\ Len(logs) < MaxLogRows
    /\ \E row \in agents :
        /\ logs' = Append(logs, LogRow(row.id, <<"message_received">>, NoText, TRUE, NoText))
        /\ finished' = [op |-> "add_log", agent_id |-> row.id]
    /\ UNCHANGED <<agents, rag_documents, chats, messages, rowid, requests, otherVars>>

\* db.delete_agent(agent_id) for any id.
DeleteAgent ==
    /\ \E agent_id \in AgentIds :
        LET db == delete_agent([agents |-> agents, rag_documents |-> rag_documents,
                                logs |-> logs, chats |-> chats, messages |-> messages],
                               agent_id)
        IN  /\ agents' = db.agents
            /\ rag_documents' = db.rag_documents
            /\ logs' = db.logs
            /\ chats' = db.chats
            /\ messages' = db.messages
            /\ finished' = [op |-> "delete_agent", agent_id |-> agent_id]
    /\ UNCHANGED <<rowid, requests, otherVars>>

\* process_chat_messages (message_processor.py lines 52-196) up to
\* get_unprocessed_messages (line 81): an empty batch ends the turn.
TurnReadIn(slot, envs) ==
    /\ Free(slot)
    /\ \E chat \in chats, env \in envs :
        LET batch == get_unprocessed_messages(messages, chat.id)
        IN  IF batch = {}
            THEN End(slot, [op |-> "process_chat_messages", chat_table_id |-> chat.id,
                            batch |-> batch, logs |-> <<>>, exc |-> NoText])
            ELSE Start(slot, [op |-> "process_chat_messages", chat_table_id |-> chat.id,
                              agent_id |-> chat.agent_id, chat_id |-> chat.chat_id,
                              batch |-> batch, env |-> env])
    /\ UNCHANGED <<agents, logs, rag_documents, chats, messages, rowid, otherVars>>

TurnRead(slot) == TurnReadIn(slot, StoreTurns)

\* The rest of the turn (lines 87-196): its log rows are written and the
\* batch is marked processed when the turn gets that far.
TurnEndUpTo(slot, max_logs) ==
    /\ ~Free(slot)
    /\ requests[slot].op = "process_chat_messages"
    /\ \E call \in {requests[slot]} :
        \E s \in {process_chat_messages(StoreAgent(call.agent_id), <<call.chat_id>>,
                                         call.env)} :
            /\ Len(logs) + Len(s.logs) <= max_logs
            /\ logs' = logs \o s.logs
            /\ messages' = IF s.processed
                           THEN mark_messages_processed(messages, call.batch)
                           ELSE messages
            /\ End(slot, [op |-> "process_chat_messages",
                          chat_table_id |-> call.chat_table_id, batch |-> call.batch,
                          logs |-> s.logs, exc |-> s.exc])
    /\ UNCHANGED <<agents, rag_documents, chats, rowid, otherVars>>

TurnEnd(slot) == TurnEndUpTo(slot, MaxLogRows)

\* The store of a deployment with two agents and nothing else.
StoreInit ==
    /\ agents = {ProvisionalRow(id, "t1") : id \in AgentIds}
    /\ logs = <<>>
    /\ rag_documents = {}
    /\ chats = {}
    /\ messages = {}
    /\ rowid = [rag_documents |-> 0, chats |-> 0, messages |-> 0]
    /\ requests = [slot \in 1..MaxRequests |-> NoRequest]
    /\ finished = NoFinished
    /\ pc = "idle"
    /\ event_data = EmptyEnvelope
    /\ bot_id_int = NoBot
    /\ all_agents = <<>>
    /\ agent = NoAgent
    /\ calls = <<>>
    /\ turn = NoTurn
    /\ now = "monday"
    /\ response = NoResponse
    /\ config = [domain |-> "t1", webhook_url |-> None]
    /\ next_id = MAX_AGENTS + 1
    /\ next_bot_id = 42
    /\ api_response = NoApiResponse
    /\ ToolIdle
    /\ RetryIdle
    /\ HoursIdle
    /\ TurnIdle
    /\ RagIdle
    /\ CallIdle
    /\ form = <<>>

\* The rows inserted so far and still counted: the calls that insert stop
\* at MaxInserts.
Inserted == rowid.rag_documents + rowid.chats + rowid.messages + Len(logs)

\* The calls that fill the store, one at a time, and delete_agent.
StoreNext ==
    \/ /\ Inserted < MaxInserts
       /\ \/ UploadGetAgent(1) \/ UploadDelete(1) \/ UploadInsert(1)
          \/ GetOrCreateChatSelect(1) \/ GetOrCreateChatInsert(1)
          \/ AddMessage
          \/ AddLogRow
    \/ DeleteAgent

SpecStore == StoreInit /\ [][StoreNext]_vars

\* Uploads and filename deletes of the knowledge base, overlapping in time.
KnowledgeNext ==
    \E slot \in 1..MaxRequests :
        \/ UploadGetAgent(slot) \/ UploadDelete(slot) \/ UploadInsert(slot)
        \/ RagDeleteGetAgent(slot) \/ RagDeleteDelete(slot)

SpecKnowledge == StoreInit /\ [][KnowledgeNext]_vars

\* Sessions, their messages and their turns, overlapping in time.
SessionNext ==
    \/ \E slot \in 1..MaxRequests :
        \/ GetOrCreateChatSelect(slot) \/ GetOrCreateChatInsert(slot)
        \/ TurnRead(slot) \/ TurnEnd(slot)
    \/ AddMessage

SpecSession == StoreInit /\ [][SessionNext]_vars

\* Turns of one session one after the other, in which the model answers
\* with one tool call and the send of the reply works or raises.
MaxBatchLogs == 4
BatchTurns == {TurnEnv(<<ToolReply>>, faults) : faults \in {{}, {"send_reply"}}}

BatchTurnRead == TurnReadIn(1, BatchTurns)
BatchTurnEnd == TurnEndUpTo(1, MaxBatchLogs)

BatchNext ==
    \/ GetOrCreateChatSelect(1) \/ GetOrCreateChatInsert(1)
    \/ AddMessage
    \/ BatchTurnRead \/ BatchTurnEnd

SpecBatch == StoreInit /\ [][BatchNext]_vars

(***************************************************************************)
(* Management console: api_create_agent requests in flight                 *)
(***************************************************************************)
\* The limit test of api_create_agent (app.py lines 176-178) letting one
\* more agent in.
AtLimit_OneMore(table, domain) ==
    Cardinality({r \in table : r.domain = domain}) > MAX_AGENTS
AtLimit(table, domain) ==
    Cardinality({r \in table : r.domain = domain}) >= MAX_AGENTS

consoleFrame == <<logs, reqVars, toolVars, ccVars, hoursVars, turnVars, config,
                  api_response, rag_documents, chats, messages, rowid, ragVars,
                  callVars, form>>

\* Lines 172-178: the listing is read and its length tested.
CreateCheck(slot) ==
    /\ Free(slot)
    /\ IF AtLimit(agents, config.domain)
       THEN End(slot, [op |-> "api_create_agent", http |-> 400, agent_id |-> 0])
       ELSE Start(slot, [op |-> "api_create_agent", at |-> "insert", agent_id |-> 0])
    /\ UNCHANGED <<agents, next_id, next_bot_id, consoleFrame>>

\* Line 182: db.create_agent inserts the provisional row.
CreateInsert(slot) ==
    /\ ~Free(slot)
    /\ requests[slot].op = "api_create_agent" /\ requests[slot].at = "insert"
    /\ next_id <= MaxAgentId
    /\ agents' = agents \cup {ProvisionalRow(next_id, config.domain)}
    /\ next_id' = next_id + 1
    /\ Step(slot, [requests[slot] EXCEPT !.at = "register", !.agent_id = next_id])
    /\ UNCHANGED <<next_bot_id, consoleFrame>>

\* Lines 184-243: the bot is registered and the row bound to it, or the
\* row is deleted again.
CreateRegister(slot) ==
    /\ ~Free(slot)
    /\ requests[slot].op = "api_create_agent" /\ requests[slot].at = "register"
    /\ \E registered, update_ok, delete_ok \in BOOLEAN :
        LET id == requests[slot].agent_id
            bind == ("bot_id" :> next_bot_id) @@ ("bot_type" :> "openline")
                    @@ ("is_active" :> TRUE)
        IN  IF registered /\ update_ok
            THEN /\ agents' = {IF r.id = id THEN update_agent(r, bind) ELSE r : r \in agents}
                 /\ next_bot_id' = next_bot_id + 1
                 /\ End(slot, [op |-> "api_create_agent", http |-> 200, agent_id |-> id])
            ELSE /\ agents' = Compensate(agents, id, delete_ok)
                 /\ next_bot_id' = IF registered THEN next_bot_id + 1 ELSE next_bot_id
                 /\ End(slot, [op |-> "api_create_agent", http |-> 500, agent_id |-> id])
    /\ UNCHANGED <<next_id, consoleFrame>>

\* A console of tenant t1 with no agent yet.
CreateInit ==
    /\ config = [domain |-> "t1", webhook_url |-> "https://hook"]
    /\ next_id = 1
    /\ next_bot_id = 42
    /\ api_response = NoApiResponse
    /\ rag_documents = {}
    /\ chats = {}
    /\ messages = {}
    /\ rowid = [rag_documents |-> 0, chats |-> 0, messages |-> 0]
    /\ requests = [slot \in 1..MaxRequests |-> NoRequest]
    /\ finished = NoFinished
    /\ ToolIdle
    /\ RetryIdle
    /\ HoursIdle
    /\ WebIdle
    /\ TurnIdle
    /\ RagIdle
    /\ CallIdle
    /\ form = <<>>

CreateNext ==
    \E slot \in 1..MaxRequests : CreateCheck(slot) \/ CreateInsert(slot) \/ CreateRegister(slot)

SpecCreate == CreateInit /\ [][CreateNext]_vars

\* ---------------------------------------------------------------------
\* db.update_agent in flight (database.py lines 363-414).  The SELECT of
\* line 369 and the UPDATE of lines 377-408 are two statements: sqlite3
\* opens the transaction before the UPDATE, so another connection can
\* commit between them.

\* A row of table agents with its system_prompt column.
PromptRow(id, domain, system_prompt) ==
    ProvisionalRow(id, domain) @@ ("system_prompt" :> system_prompt)

Prompts == {"p0", "p1", "p2"}

\* The mappings of the model: the one of api_toggle_agent (app.py line
\* 318), an edit of the system prompt, both keys, and no key.
UpdateMappings ==
    {<<>>} \cup {"is_active" :> a : a \in BOOLEAN}
           \cup {"system_prompt" :> p : p \in Prompts \ {"p0"}}
           \cup {("is_active" :> FALSE) @@ ("system_prompt" :> "p1")}

\* The row of an id, as SELECT * FROM agents WHERE id = ? gives it
\* (NoAgent when there is none).
CurrentRow(table, agent_id) ==
    IF \E r \in table : r.id = agent_id
    THEN CHOOSE r \in table : r.id = agent_id
    ELSE NoAgent

\* Lines 365-375: the row is read; without one the call returns False.
UpdateSelect(slot) ==
    /\ Free(slot)
    /\ \E agent_id \in 1..MaxAgentId, agent_data \in UpdateMappings :
        \E current \in {CurrentRow(agents, agent_id)} :
            IF current = NoAgent
            THEN End(slot, [op |-> "update_agent", agent_id |-> agent_id,
                            agent_data |-> agent_data, result |-> FALSE])
            ELSE Start(slot, [op |-> "update_agent", agent_id |-> agent_id,
                              agent_data |-> agent_data, current |-> current])
    /\ UNCHANGED <<agents, next_id, next_bot_id, consoleFrame>>

\* Lines 377-412: UPDATE ... WHERE id = ?, built from the row read, and
\* the commit; the call returns True.  id, domain and created_at are not
\* in the statement and no call changes them.
UpdateWrite(slot) ==
    /\ ~Free(slot)
    /\ requests[slot].op = "update_agent"
    /\ \E call \in {requests[slot]} :
        /\ agents' = {IF r.id = call.agent_id
                      THEN update_agent(call.current, call.agent_data)
                      ELSE r : r \in agents}
        /\ End(slot, [op |-> "update_agent", agent_id |-> call.agent_id,
                      agent_data |-> call.agent_data, result |-> TRUE])
    /\ UNCHANGED <<next_id, next_bot_id, consoleFrame>>

\* Tenant t1 has agent 1; no row has id 2.
UpdateInit ==
    /\ config = [domain |-> "t1", webhook_url |-> "https://hook"]
    /\ next_id = 2
    /\ next_bot_id = 42
    /\ api_response = NoApiResponse
    /\ rag_documents = {}
    /\ chats = {}
    /\ messages = {}
    /\ rowid = [rag_documents |-> 0, chats |-> 0, messages |-> 0]
    /\ requests = [slot \in 1..MaxRequests |-> NoRequest]
    /\ finished = NoFinished
    /\ ToolIdle
    /\ RetryIdle
    /\ HoursIdle
    /\ pc = "idle"
    /\ logs = <<>>
    /\ event_data = EmptyEnvelope
    /\ bot_id_int = NoBot
    /\ all_agents = <<>>
    /\ agent = NoAgent
    /\ calls = <<>>
    /\ turn = NoTurn
    /\ now = "monday"
    /\ response = NoResponse
    /\ agents = {PromptRow(1, "t1", "p0")}
    /\ TurnIdle
    /\ RagIdle
    /\ CallIdle
    /\ form = <<>>

UpdateNext ==
    \E slot \in 1..MaxRequests : UpdateSelect(slot) \/ UpdateWrite(slot)

SpecUpdate == UpdateInit /\ [][UpdateNext]_vars

(***************************************************************************)
(* Knowledge context: get_rag_context on any knowledge base                *)
(***************************************************************************)
\* The lengths of the files of a knowledge base; 0 stands for no file of
\* that name.
FileLengths == {0, 10, 95, 2500, 4100}

\* The table after each file was uploaded once for agent 1, next to one
\* chunk of agent 2.
KnowledgeBase(lengths) ==
    UNION {{RagRow(10 * FilenameRank(filename) + k, 1, filename,
                   Chunks([text |-> filename, len |-> lengths[filename]])[k], k - 1) :
               k \in 1..Len(Chunks([text |-> filename, len |-> lengths[filename]]))} :
           filename \in DOMAIN lengths}
    \cup {RagRow(99, 2, "a", [file |-> "a", from |-> 0, len |-> 10], 0)}

KnowledgeBases == {KnowledgeBase(lengths) : lengths \in [{"a", "b", "kb"} -> FileLengths]}

\* max_length: the 4000 every caller passes, and budgets around the 100
\* characters of line 519.
MaxLengths == {50, 100, 101, 120, 4000}

RagInit ==
    /\ rag_documents \in KnowledgeBases
    /\ rag_max_length \in MaxLengths
    /\ rag_context = NotRun(NoContext)
    /\ chats = {}
    /\ messages = {}
    /\ rowid = [rag_documents |-> 0, chats |-> 0, messages |-> 0]
    /\ requests = <<>>
    /\ finished = NoFinished
    /\ ToolIdle
    /\ RetryIdle
    /\ HoursIdle
    /\ WebIdle
    /\ TurnIdle
    /\ AdminIdle
    /\ CallIdle
    /\ form = <<>>

\* db.get_rag_context(1, max_length)
GetRagContext ==
    /\ ~rag_context.ran
    /\ \E docs \in get_rag_documents(rag_documents, 1) :
        rag_context' = Ran(get_rag_context(docs, rag_max_length))
    /\ UNCHANGED <<rag_documents, rag_max_length, chats, messages, rowid, requests,
                   finished, toolVars, ccVars, hoursVars, webVars, turnVars, adminVars,
                   callVars, form>>

SpecRag == RagInit /\ [][GetRagContext]_vars

(***************************************************************************)
(* Bitrix24 REST client: one invocation of call                            *)
(***************************************************************************)
\* The clients __init__ (lines 21-45) builds: a token from the event, OAuth
\* from the database (with the token a previous call may have cached), or
\* the webhook URL; and what table apps holds for the domain.
Clients ==
    {c \in [mode : {"event_token", "oauth", "webhook"}, db : BOOLEAN,
            access_token : {None, "tok"},
            app : {NoApp} \cup [installed : {TRUE}, refresh_token : {None, "r1"},
                                expiring : BOOLEAN]] :
        /\ c.mode = "event_token" => c.access_token # None
        /\ c.mode = "oauth" => c.db
        /\ c.mode = "webhook" => c.access_token = None
        /\ ~c.db => c.app = NoApp}

CallInit ==
    /\ client \in Clients
    /\ rest = RestCall("start", <<>>, NoRestResponse, NoRestResponse)
    /\ ToolIdle
    /\ RetryIdle
    /\ HoursIdle
    /\ WebIdle
    /\ TurnIdle
    /\ AdminIdle
    /\ StoreIdle
    /\ RagIdle
    /\ form = <<>>

restFrame == <<toolVars, ccVars, hoursVars, webVars, turnVars, adminVars, storeVars,
               ragVars, form>>

\* Lines 121-136: the URL and the token, then the first requests.post.  A
\* refresh that _get_access_token asks for can be refused.
CallSend ==
    /\ rest.pc = "start"
    /\ \E refreshed \in BOOLEAN :
        LET token == IF client.mode = "webhook" THEN "none" ELSE get_access_token(client)
        IN  IF token = "raise"
            THEN rest' = [rest EXCEPT !.pc = "raised"]
            ELSE IF token = "refresh" /\ ~refreshed
            THEN rest' = [rest EXCEPT !.pc = "raised", !.trace = <<"refresh_failed">>]
            ELSE rest' = [rest EXCEPT !.pc = "first",
                             !.trace = IF token = "refresh" THEN <<"refresh", "request">>
                                       ELSE <<"request">>]
    /\ UNCHANGED <<client, restFrame>>

\* Lines 141-172 on the first response: a result or a body without error
\* is returned; a token error in OAuth mode with a stored refresh token
\* leads to _refresh_token and, when that succeeds, to the second
\* requests.post; everything else is raised.
CallFirstResponse ==
    /\ rest.pc = "first"
    /\ \E answer \in RestResponses, refreshed \in BOOLEAN :
        LET got == [rest EXCEPT !.first = answer]
        IN  IF answer.status # 200 THEN rest' = [got EXCEPT !.pc = "raised"] /\ UNCHANGED client
            ELSE IF answer.body # "error"
            THEN rest' = [got EXCEPT !.pc = "returned"] /\ UNCHANGED client
            ELSE IF ~(/\ ShouldRefresh(client, answer)
                      /\ client.app.installed
                      /\ client.app.refresh_token # None)
            THEN rest' = [got EXCEPT !.pc = "raised"] /\ UNCHANGED client
            ELSE IF ~refreshed
            THEN /\ rest' = [got EXCEPT !.pc = "raised",
                                        !.trace = Append(@, "refresh_failed")]
                 /\ UNCHANGED client
            ELSE /\ rest' = [got EXCEPT !.pc = "second",
                                        !.trace = @ \o <<"refresh", "request">>]
                 /\ client' = [client EXCEPT !.access_token = "tok"]
    /\ UNCHANGED restFrame

\* Lines 159-168 on the response to the repeated request: a result is
\* returned; an error, a status other than 200 and a body with neither
\* result nor error are raised.
CallRetryResponse ==
    /\ rest.pc = "second"
    /\ \E answer \in RestResponses :
        rest' = [rest EXCEPT !.second = answer,
                             !.pc = IF answer.status = 200 /\ answer.body = "result"
                                    THEN "returned" ELSE "raised"]
    /\ UNCHANGED <<client, restFrame>>

CallNext == CallSend \/ CallFirstResponse \/ CallRetryResponse

SpecCall == CallInit /\ [][CallNext]_vars

(***************************************************************************)
(* Event normalizer: one call of parse_bitrix_form_data on a flat form     *)
(***************************************************************************)
\* The keys a form may carry: the four shapes of the interface, a PARAMS key
\* with further bracketed parts (the file and attachment fields of a message
\* event), and keys of no known group.
FormKeys ==
    {<<"event">>, <<"data", "PARAMS", "MESSAGE">>, <<"data", "PARAMS", "FILES">>,
     <<"data", "PARAMS", "FILES", "1">>, <<"data", "USER", "ID">>,
     <<"auth", "domain">>, <<"ts">>, <<"data", "BOT", "39">>,
     <<"data", "PARAMS", "a-b">>}
FormValues == {"v", "w"}

\* The entry of the envelope a key is stored under, if it matches a pattern.
EntryOf(key) ==
    IF IsParamKey(key) \/ IsUserKey(key) THEN SubSeq(key, 1, 3)
    ELSE IF IsAuthKey(key) THEN SubSeq(key, 1, 2)
    ELSE key

\* The forms: every set of keys with every value, no two keys of a form
\* stored under the same entry (the later item of the mapping would win, and
\* the order of the items is not part of a form here).
Forms ==
    {f \in UNION {[ks -> FormValues] : ks \in SUBSET FormKeys} :
        \A k1, k2 \in DOMAIN f : EntryOf(k1) = EntryOf(k2) => k1 = k2}

FormInit ==
    /\ form \in Forms
    /\ ToolIdle
    /\ RetryIdle
    /\ HoursIdle
    /\ WebIdle
    /\ TurnIdle
    /\ AdminIdle
    /\ StoreIdle
    /\ RagIdle
    /\ CallIdle

\* event_data = parse_bitrix_form_data(request.form.to_dict())
ParseForm ==
    /\ pc = "idle"
    /\ pc' = "parsed"
    /\ event_data' = parse_bitrix_form_data(form)
    /\ UNCHANGED <<toolVars, ccVars, hoursVars, dbVars, bot_id_int, all_agents, agent,
                   calls, turn, now, response, turnVars, adminVars, dataVars>>

SpecForm == FormInit /\ [][ParseForm]_vars

(***************************************************************************)
(* Message handlers step by step: typing indicator, turn, send, log        *)
(***************************************************************************)
\* A call of the Bitrix24 client or of the database made by a handler after
\* the agent is resolved, with the bot id it is made under and whether it
\* worked.
HandlerCall(op, bot_id, dialog_id, ok) ==
    [op |-> op, bot_id |-> bot_id, dialog_id |-> dialog_id, ok |-> ok]

\* bot_id = agent['bot_id'] (lines 242 and 358).
bot_id_to_use_Addressed(row) == bot_id_int
bot_id_to_use(row) == row.bot_id

\* Where the handler stands after bot_typing_start or bot_send_message: the
\* try block around the call swallows its exception (lines 248-251, 258-268,
\* 361-364 and 371-381).
AfterClientCall_Propagates(next, ok) == IF ok THEN next ELSE "failed"
AfterClientCall(next, ok) == next

HandlerStep(next) ==
    IF next = "failed" THEN Fail("Exception") ELSE pc' = next /\ UNCHANGED response

\* The clock readings of a turn of this specification.
HandlerWeekdays == {"monday", "sunday"}

\* bitrix.bot_typing_start(bot_id, dialog_id) in its try block.
ReplyTyping ==
    /\ pc = "reply"
    /\ \E ok \in BOOLEAN :
        /\ calls' = Append(calls, HandlerCall("bot_typing_start", bot_id_to_use(agent),
                                              DialogId(event_data), ok))
        /\ HandlerStep(AfterClientCall("typed", ok))
    /\ UNCHANGED <<agents, logs, event_data, bot_id_int, all_agents, agent, turn, now,
                   toolVars, ccVars, hoursVars, turnVars, adminVars, dataVars>>

\* response_text = process_with_openai(agent, message_text, dialog_id,
\* bitrix, chat_id): inference, then the tool calls of the response.
ReplyTurn ==
    /\ pc = "typed"
    /\ \E env \in TurnEnvs, weekday \in HandlerWeekdays :
        /\ now' = weekday
        /\ turn' = process_with_openai(agent, ChatId(event_data), env)
        /\ calls' = Append(calls, HandlerCall("process_with_openai", NoBot,
                                              DialogId(event_data), TRUE))
    /\ pc' = "turned"
    /\ UNCHANGED <<agents, logs, event_data, bot_id_int, all_agents, agent, response,
                   toolVars, ccVars, hoursVars, turnVars, adminVars, dataVars>>

\* bitrix.bot_send_message(bot_id, dialog_id, response_text) in its try
\* block.
ReplySend ==
    /\ pc = "turned"
    /\ \E ok \in BOOLEAN :
        /\ calls' = Append(calls, HandlerCall("bot_send_message", bot_id_to_use(agent),
                                              DialogId(event_data), ok))
        /\ HandlerStep(AfterClientCall("sent", ok))
    /\ UNCHANGED <<agents, logs, event_data, bot_id_int, all_agents, agent, turn, now,
                   toolVars, ccVars, hoursVars, turnVars, adminVars, dataVars>>

\* db.add_log(agent['id'], ...) and the return of the "ok" status; a failing
\* add_log reaches the except block of the handler.
ReplyLog ==
    /\ pc = "sent"
    /\ \E ok \in BOOLEAN :
        LET action == IF event_data.event \in OpenlineEvents
                      THEN "openline_message" ELSE "message_received"
        IN  /\ calls' = Append(calls, HandlerCall("add_log", NoBot, NoId, ok))
            /\ IF ok
               THEN /\ logs' = Append(logs, LogRow(agent.id, <<action>>, NoText, TRUE, NoText))
                    /\ Respond(Status("ok"))
               ELSE /\ UNCHANGED logs
                    /\ Fail("OperationalError")
    /\ UNCHANGED <<agents, event_data, bot_id_int, all_agents, agent, turn, now,
                   toolVars, ccVars, hoursVars, turnVars, adminVars, dataVars>>

HandlerNext ==
    \/ BotWebhook \/ Lookup \/ Fallback
    \/ ReplyTyping \/ ReplyTurn \/ ReplySend \/ ReplyLog
    \/ SendResponse

SpecHandler == WebhookInit /\ [][HandlerNext]_vars

\* The handlers next to the console: db.delete_agent (database.py lines
\* 416-443, called by api_delete_agent) commits between any two calls of
\* a handler.  The tables hold agents of tenant t1 that are active and
\* registered, with working hours switched off.
ActiveTables ==
    {table \in AgentTables :
        \A r \in table : /\ r.is_active
                         /\ r.domain = "t1"
                         /\ r.bot_id = 42
                         /\ ~r.working_hours_enabled}

DeleteInit ==
    /\ WebhookInit
    /\ agents \in ActiveTables

DeleteNext == HandlerNext \/ DeleteAgent

SpecDelete == DeleteInit /\ [][DeleteNext]_vars

(***************************************************************************)
(* Properties of the bot webhook                                           *)
(***************************************************************************)
Ops(trace) == {trace[i].op : i \in 1..Len(trace)}
ReplyOps == {"bot_typing_start", "process_with_openai", "bot_send_message", "add_log"}
First(indices) == CHOOSE i \in indices : \A j \in indices : i <= j

\* The envelope is a mapping whose data, PARAMS and auth are mappings.
WellFormed(ev) == ev.is_dict /\ ev.data_ok /\ ev.auth_ok

\* A request has just entered the handler.
Received == pc = "idle" /\ pc' # "idle"

\* The text of the message, read without the truthiness test.
TextOf(ev) ==
    LET message == DictGet(ev.params, "MESSAGE", None)
    IN  IF ev.event \in OpenlineEvents /\ message \in {None, ""}
        THEN DictGet(ev.params, "MESSAGE_TEXT", None) ELSE message

\* A message event with tenant or text absent (or empty).
Unroutable(ev) ==
    /\ WellFormed(ev)
    /\ ev.event \in InternalEvents \cup OpenlineEvents
    /\ (Domain(ev) \in {None, ""} \/ TextOf(ev) \in {None, ""})

\* A message event with tenant and text present.
Routable(ev) ==
    /\ WellFormed(ev)
    /\ ev.event \in InternalEvents \cup OpenlineEvents
    /\ Domain(ev) \notin {None, ""}
    /\ TextOf(ev) \notin {None, ""}

\* The listing is the tenant's rows of the table, each once, newest first.
IsListing(listing, table, domain) ==
    /\ {listing[i] : i \in 1..Len(listing)} = {r \in table : r.domain = domain}
    /\ Len(listing) = Cardinality({r \in table : r.domain = domain})
    /\ \A i, j \in 1..Len(listing) : i < j => listing[i].created_at >= listing[j].created_at

\* The outcome agent_not_found: acknowledged, nothing done for the message.
NotFoundOutcome ==
    /\ pc' = "done"
    /\ response' = [http |-> 200, status |-> "agent_not_found", event |-> Absent,
                    error |-> Absent]
    /\ agent' = NoAgent
    /\ turn' = NoTurn
    /\ Ops(calls') \cap ReplyOps = {}
    /\ logs' = logs

\* C1: every request to the bot webhook, whatever its event type and payload
\* encoding, whether or not an agent is identified and whether or not a
\* database, Bitrix24 or OpenAI step fails, is answered with HTTP 200 and a
\* JSON status object.
C1_AlwaysAcknowledged ==
    pc = "done" => (response.http = 200 /\ response.status # Absent)

\* C2: a message event whose tenant is absent or whose text is absent or
\* empty ends with no_domain or no_message (the tenant check first), and the
\* invocation makes no agent lookup, no typing or send call, no inference
\* call and no log append.
C2_UnroutableAcknowledged ==
    /\ []((pc # "idle" /\ Unroutable(event_data)) => (pc = "done" /\ calls = <<>>))
    /\ [][(Received /\ Unroutable(event_data')) =>
            /\ response' = [http |-> 200,
                            status |-> IF Domain(event_data') \in {None, ""}
                                       THEN "no_domain" ELSE "no_message",
                            event |-> Absent, error |-> Absent]
            /\ calls' = <<>>
            /\ agent' = NoAgent /\ all_agents' = <<>>
            /\ turn' = NoTurn
            /\ agents' = agents /\ logs' = logs]_vars

C2_Witness ==
    /\ pc = "done"
    /\ event_data.event \in OpenlineEvents
    /\ Domain(event_data) = "t1"
    /\ DictGet(event_data.params, "MESSAGE", None) = ""
    /\ response.status = "no_message"

\* C3: an event whose name is a lifecycle event, or no known event name, or
\* missing, is answered with status "ok" (the name echoed when it is not a
\* lifecycle event); the agent table and the log table are unchanged, and
\* there is no inference call and no outbound call.
C3_LifecycleAcknowledged ==
    [][(/\ Received
        /\ event_data'.is_dict
        /\ event_data'.event \notin {"ONIMBOTMESSAGEADD", "ONIMCONNECTORMESSAGEADD",
                                     "ONIMOPENLINEMESSAGEADD"}) =>
            /\ pc' = "done"
            /\ response'.http = 200 /\ response'.status = "ok" /\ response'.error = Absent
            /\ response'.event =
                  IF event_data'.event \in
                        {"ONIMBOTJOINCHAT", "ONIMBOTWELCOMEMESSAGE", "ONIMBOTMESSAGEUPDATE",
                         "ONIMBOTMESSAGEDELETE", "ONIMBOTDELETE"}
                  THEN Absent ELSE event_data'.event
            /\ agents' = agents /\ logs' = logs
            /\ calls' = <<>> /\ turn' = NoTurn /\ agent' = NoAgent]_vars

C3_Witness ==
    /\ pc = "done"
    /\ event_data.event = "ONIMBOTDELETE"
    /\ response = [http |-> 200, status |-> "ok", event |-> Absent, error |-> Absent]
    /\ agents # {}

\* C4: for an internal message with tenant and text present, an agent of the
\* tenant that alone is bound to the integer value of TO_USER_ID is selected
\* without the fallback; when none matches (TO_USER_ID missing, zero or not
\* coercible to an integer, which never raises) the first agent of the
\* tenant's listing that is active and has a bot id is selected; when there
\* is none the outcome is agent_not_found, with no inference call and no
\* send.
C4_InternalRouting ==
    [][/\ (Received /\ Routable(event_data') /\ event_data'.event \in InternalEvents) =>
            LET to == DictGet(event_data'.params, "TO_USER_ID", None)
            IN  /\ pc' \in {"lookup", "fallback"}
                /\ pc' = "lookup" =>
                      (to \in {"42", "43"} /\ bot_id_int' = IF to = "42" THEN 42 ELSE 43)
       /\ (/\ pc = "lookup" /\ pc' # "lookup"
           /\ event_data.event \in InternalEvents
           /\ response'.http # 500) =>
            LET bound == {r \in agents : r.domain = Domain(event_data)
                                           /\ r.bot_id = bot_id_int}
            IN  /\ Cardinality(bound) = 1 => (agent' \in bound /\ pc' # "fallback")
                /\ bound = {} => pc' = "fallback"
       /\ (/\ pc = "fallback" /\ pc' # "fallback"
           /\ event_data.event \in InternalEvents
           /\ response'.http # 500) =>
            LET candidates == {i \in 1..Len(all_agents') :
                                  all_agents'[i].is_active /\ all_agents'[i].bot_id # NoBot}
            IN  /\ IsListing(all_agents', agents, Domain(event_data))
                /\ IF candidates = {} THEN NotFoundOutcome
                   ELSE agent' = all_agents'[First(candidates)] /\ pc' = "reply"]_vars

\* C5: for an open-line message with tenant and text present, an agent of
\* the tenant bound to the line id given is selected; otherwise the first
\* agent of the tenant's listing that is active and of type openline is
\* selected; when there is none the outcome is agent_not_found, with no
\* inference call and no send.
C5_OpenlineRouting ==
    [][/\ (Received /\ Routable(event_data') /\ event_data'.event \in OpenlineEvents) =>
            pc' = IF DictGet(event_data'.params, "LINE_ID", None) \in {None, ""}
                  THEN "fallback" ELSE "lookup"
       /\ (/\ pc = "lookup" /\ pc' # "lookup"
           /\ event_data.event \in OpenlineEvents
           /\ response'.http # 500) =>
            LET bound == {r \in agents :
                            /\ r.domain = Domain(event_data)
                            /\ r.open_line_id = DictGet(event_data.params, "LINE_ID", None)}
            IN  /\ bound # {} => (agent' \in bound /\ pc' # "fallback")
                /\ bound = {} => pc' = "fallback"
       /\ (/\ pc = "fallback" /\ pc' # "fallback"
           /\ event_data.event \in OpenlineEvents
           /\ response'.http # 500) =>
            LET candidates == {i \in 1..Len(all_agents') :
                                  /\ all_agents'[i].is_active
                                  /\ all_agents'[i].bot_type = "openline"}
            IN  /\ IsListing(all_agents', agents, Domain(event_data))
                /\ IF candidates = {} THEN NotFoundOutcome
                   ELSE agent' = all_agents'[First(candidates)] /\ pc' = "reply"]_vars

\* The fallback chose the second row of a listing of two agents of the
\* tenant for an open-line message whose line no agent is bound to.
C5_Witness ==
    /\ pc = "reply"
    /\ event_data.event \in OpenlineEvents
    /\ DictGet(event_data.params, "LINE_ID", None) = "L2"
    /\ Len(all_agents) = 2
    /\ agent = all_agents[2]

\* C6: in both routing paths an inactive agent resolved by exact identifier
\* ends the request with agent_inactive, without fallback, typing call,
\* inference call, send or log append; and no inference call or reply is
\* ever made for an agent whose active flag was false when the router read
\* it.
C6_InactiveNeverServed ==
    /\ []((Ops(calls) \cap ReplyOps # {} \/ turn # NoTurn) => agent.is_active)
    /\ []((pc = "reply") => agent.is_active)
    /\ [][(pc = "lookup" /\ pc' # "lookup" /\ agent' # NoAgent /\ ~agent'.is_active) =>
            /\ pc' = "done"
            /\ response' = [http |-> 200, status |-> "agent_inactive", event |-> Absent,
                            error |-> Absent]
            /\ all_agents' = <<>>
            /\ Ops(calls') \subseteq {"get_agent_by_bot_id", "get_agent_by_openline"}
            /\ turn' = NoTurn
            /\ logs' = logs]_vars

\* An inactive agent was resolved by bot id while another agent of the
\* tenant was active and bound: the request ended with agent_inactive.
C6_Witness ==
    /\ pc = "done"
    /\ response.status = "agent_inactive"
    /\ event_data.event \in InternalEvents
    /\ ~agent.is_active
    /\ \E r \in agents : r.id # agent.id /\ r.domain = agent.domain
                            /\ r.is_active /\ r.bot_id # NoBot

\* C7: a message the webhook routes to an agent with working hours enabled
\* and no schedule entry for the current weekday is answered with the
\* working-hours notice, and the inference capability is never called.
C7_OutsideHoursNotice ==
    (/\ "process_with_openai" \in Ops(calls)
     /\ agent.working_hours_enabled
     /\ now \notin DOMAIN agent.working_hours_schedule) =>
        /\ turn.inference_calls = 0
        /\ Head(turn.response_text) = "Thank you for reaching out! Our working hours are: "

(***************************************************************************)
(* Properties of the turn                                                  *)
(***************************************************************************)
\* The response the inference call of the turn returned, if it returned.
Inference(input) ==
    chat_completion(ChatCompletionStart, input.outcomes, input.agent.max_retries)
InferenceReturned(input) == Inference(input).status = "returned"
ModelToolCalls(input) == Inference(input).result.tool_calls

\* The turn reaches the inference call and no step around it fails.
Undisturbed(input) ==
    /\ input.faults = {}
    /\ input.agent.timezone_ok
    /\ input.messages > 0
    /\ is_working_hours(input.agent, input.now)

\* The i-th tool call of the turn run on its own.
Alone(input, i) ==
    execute_tool(ModelToolCalls(input)[i].function, ModelToolCalls(input)[i].arguments,
                 input.clients[i], input.chat_id, input.agent.timezone_ok)

RECURSIVE CallsUpTo(_, _)
CallsUpTo(input, n) ==
    IF n = 0 THEN <<>> ELSE CallsUpTo(input, n - 1) \o Alone(input, n).calls

\* The rows of logs that record tool calls, in the order written.
RECURSIVE ToolLogs(_)
ToolLogs(rows) ==
    IF rows = <<>> THEN <<>>
    ELSE IF Head(Head(rows).action_type) = "tool_call_"
    THEN <<Head(rows)>> \o ToolLogs(Tail(rows))
    ELSE ToolLogs(Tail(rows))

\* C11: within one turn whose inference call returned, every tool call of
\* the response is executed exactly once and in the order returned, also
\* after an earlier tool call of the turn failed; a failed tool call does
\* not prevent the remaining calls, the composition of the reply or its send.
C11_EveryToolCallOnceInOrder ==
    (Undisturbed(turn_input) /\ InferenceReturned(turn_input)) =>
        LET tool_calls == ModelToolCalls(turn_input)
            n == Len(tool_calls)
        IN  /\ pwo_result.ran =>
                /\ Len(pwo_result.value.tool_results) = n
                /\ \A i \in 1..n :
                        pwo_result.value.tool_results[i] = Alone(turn_input, i).value
                /\ pwo_result.value.client_calls = CallsUpTo(turn_input, n)
                /\ n > 0 => HasText(pwo_result.value.response_text)
            /\ pcm_result.ran =>
                /\ pcm_result.value.exc = NoText
                /\ Len(pcm_result.value.tool_results) = n
                /\ \A i \in 1..n :
                        pcm_result.value.tool_results[i] = Alone(turn_input, i).value
                /\ pcm_result.value.client_calls = CallsUpTo(turn_input, n)
                /\ Len(ToolLogs(pcm_result.value.logs)) = n
                /\ \A i \in 1..n :
                        ToolLogs(pcm_result.value.logs)[i].action_type
                            = <<"tool_call_", tool_calls[i].function>>
                /\ n > 0 =>
                        /\ Len(pcm_result.value.sent) = 1
                        /\ pcm_result.value.sent[1].dialog_id = turn_input.chat_id
                        /\ HasText(pcm_result.value.sent[1].message)

\* Both orchestrators ran two tool calls of which the first failed and the
\* second succeeded, and the reply went out.
C11_Witness ==
    /\ Undisturbed(turn_input) /\ InferenceReturned(turn_input)
    /\ pwo_result.ran /\ pcm_result.ran
    /\ Len(pcm_result.value.tool_results) = 2
    /\ ~pcm_result.value.tool_results[1].success
    /\ pcm_result.value.tool_results[2].success
    /\ pwo_result.value.tool_results = pcm_result.value.tool_results
    /\ Len(pcm_result.value.sent) = 1

\* The tool calls of the turn that created a lead (a deal).
Created(input, function) ==
    {i \in 1..Len(ModelToolCalls(input)) :
        ModelToolCalls(input)[i].function = function /\ Alone(input, i).value.success}

SuccessMessage(function) ==
    CASE function = "crm_lead_add" -> <<"Lead created (ID: ", "101", ")">>
      [] function = "crm_deal_add" -> <<"Deal created (ID: ", "101", ")">>
      [] function = "disconnect_agent_from_chat" -> <<"Agent disconnected from chat">>
      [] OTHER -> <<"OK">>

\* The messages of the successful ones among the first n tool calls.
RECURSIVE SuccessMessages(_, _)
SuccessMessages(input, n) ==
    IF n = 0 THEN <<>>
    ELSE IF Alone(input, n).value.success
    THEN Append(SuccessMessages(input, n - 1),
                SuccessMessage(ModelToolCalls(input)[n].function))
    ELSE SuccessMessages(input, n - 1)

\* The reply the turn owes for a response with tool calls.
OwedReply(input) ==
    LET content == Inference(input).result.content
        announced == SuccessMessages(input, Len(ModelToolCalls(input)))
    IN  IF content # NoText /\ content # <<>> THEN content
        ELSE IF announced = <<>> THEN <<"Action completed.">>
        ELSE <<"Done: ">> \o Join(", ", announced)

\* C14: when the model response has at least one tool call and no text, the
\* reply is "Done: " followed by the success messages of the successful tool
\* calls joined by ", " in call order, or exactly "Action completed." when no
\* call succeeded; when it has text alongside tool calls the reply is that
\* text unchanged.  A single successful crm_lead_add returning id I gives
\* "Done: Lead created (ID: I)".
C14_FallbackText ==
    (Undisturbed(turn_input) /\ InferenceReturned(turn_input)
        /\ ModelToolCalls(turn_input) # <<>>) =>
        /\ pwo_result.ran => pwo_result.value.response_text = OwedReply(turn_input)
        /\ pcm_result.ran =>
                /\ Len(pcm_result.value.sent) = 1
                /\ pcm_result.value.sent[1].message = OwedReply(turn_input)
        /\ (/\ pwo_result.ran /\ pcm_result.ran
            /\ ~HasText(Inference(turn_input).result.content)
            /\ Len(ModelToolCalls(turn_input)) = 1
            /\ ModelToolCalls(turn_input)[1].function = "crm_lead_add"
            /\ turn_input.clients[1].ok) =>
                /\ pwo_result.value.response_text
                        = <<"Done: ", "Lead created (ID: ", "101", ")">>
                /\ pcm_result.value.sent[1].message
                        = <<"Done: ", "Lead created (ID: ", "101", ")">>

\* Two successful calls after no text: both announced, in call order.
C14_Witness ==
    /\ Undisturbed(turn_input) /\ pwo_result.ran /\ pcm_result.ran
    /\ pwo_result.value.response_text
            = <<"Done: ", "Deal created (ID: ", "101", ")", ", ",
                "Lead created (ID: ", "101", ")">>
    /\ pcm_result.value.sent[1].message = pwo_result.value.response_text

\* C15: in every turn whose inference call returned, for every combination
\* of text present or absent and zero or more tool calls, a non-empty textual
\* reply is sent to the dialog; a response with no text and no tool calls
\* still produces a textual reply.
C15_ReplyAlwaysSent ==
    (Undisturbed(turn_input) /\ InferenceReturned(turn_input)) =>
        /\ pwo_result.ran =>
                /\ pwo_result.value.response_text # NoText
                /\ pwo_result.value.response_text # <<>>
        /\ pcm_result.ran =>
                /\ Len(pcm_result.value.sent) = 1
                /\ pcm_result.value.sent[1].dialog_id = turn_input.chat_id
                /\ pcm_result.value.sent[1].message # NoText
                /\ pcm_result.value.sent[1].message # <<>>

\* C18: process_chat_messages never propagates an exception to its caller:
\* a failure at any step of the turn (sending the outside-hours notice,
\* reading unprocessed messages, building the conversation, inference, tool
\* execution, sending the reply, marking messages processed) is caught and
\* recorded as a failure log entry.
C18_TurnNeverRaises ==
    pcm_result.ran =>
        /\ pcm_result.value.exc = NoText
        /\ ~pcm_result.value.processed /\ pcm_result.value.sent = <<>>
            /\ pcm_result.value.inference_calls > 0 =>
                \E i \in 1..Len(pcm_result.value.logs) :
                    /\ ~pcm_result.value.logs[i].success
                    /\ pcm_result.value.logs[i].error_message # NoText

(***************************************************************************)
(* Properties of the chat-control tools                                    *)
(***************************************************************************)
ChatControlTools == {"transfer_chat_to_user", "disconnect_agent_from_chat"}
ChatControlMethods == {"openlines_operator_transfer", "openlines_operator_finish"}

\* The request in flight has run its turn and answered ok.
TurnDone == pc = "done" /\ response = Status("ok") /\ turn # NoTurn

\* The id without the tag "chat".
Bare(chat_id) == IF chat_id = <<"chat", "7">> THEN <<"7">> ELSE chat_id

\* C12: a chat-control tool (transfer_chat_to_user, disconnect_agent_from_chat)
\* called without a chat id yields {success: false} and makes no Bitrix24
\* chat-control call; with the id "chat"N the call receives the bare N, and
\* an id without the tag is passed unchanged.  In the open-line path the
\* reply goes to "chat"+CHAT_ID while the chat-control call of the same turn
\* receives the bare CHAT_ID.
C12_ChatControlIds ==
    TurnDone =>
        LET chat_id == ChatId(event_data)
            sends == {i \in 1..Len(calls) : calls[i].op = "bot_send_message"}
        IN  \A i \in 1..Len(turn.functions) :
                turn.functions[i] \in ChatControlTools =>
                    IF chat_id = NoId
                    THEN /\ ~turn.tool_results[i].success
                         /\ turn.tool_results[i].error = <<"chat_id required">>
                         /\ turn.client_calls = <<>>
                    ELSE /\ turn.tool_results[i].success
                         /\ Len(turn.client_calls) = 1
                         /\ turn.client_calls[1].method \in ChatControlMethods
                         /\ turn.client_calls[1].arg \in
                                {Bare(chat_id), Bare(chat_id) \o <<"user_id">>}
                         /\ (event_data.event \in OpenlineEvents
                                /\ chat_id = <<"7">>) =>
                                \A k \in sends : calls[k].dialog_id = <<"chat", "7">>

\* An open-line turn with CHAT_ID 7 finished the chat with the bare id and
\* replied to the tagged one.
C12_Witness ==
    /\ TurnDone
    /\ event_data.event \in OpenlineEvents
    /\ ChatId(event_data) = <<"7">>
    /\ turn.functions = <<"disconnect_agent_from_chat">>
    /\ turn.client_calls = <<[method |-> "openlines_operator_finish", arg |-> <<"7">>]>>
    /\ \E k \in 1..Len(calls) :
            calls[k] = [op |-> "bot_send_message", dialog_id |-> <<"chat", "7">>]

(***************************************************************************)
(* Properties of the reply and its log entry                               *)
(***************************************************************************)
\* The handler runs the turn, sends the reply, writes its log entry and
\* answers ok.
Replied == pc = "reply" /\ pc' = "done" /\ response' = Status("ok")

\* The calls the step adds to those of the request.
NewCalls == SubSeq(calls', Len(calls) + 1, Len(calls'))

\* C16: for an internal-message event that resolves to an active agent with
\* no working-hours restriction, when the model returns plain text T and no
\* tool calls, T is sent to the event's dialog and a log entry of action type
\* message_sent whose content is T is appended for that agent.
C16_TextReplyLogged ==
    [][(/\ Replied
        /\ event_data.event \in InternalEvents
        /\ agent.is_active /\ ~agent.working_hours_enabled
        /\ turn'.inference_calls = 1 /\ turn'.functions = <<>>
        /\ turn'.response_text = <<"Hi there!">>) =>
            /\ \E k \in 1..Len(NewCalls) :
                    NewCalls[k] = [op |-> "bot_send_message",
                                   dialog_id |-> DictGet(event_data.params, "DIALOG_ID", NoId)]
            /\ logs' = Append(logs, [agent_id |-> agent.id,
                                     action_type |-> <<"message_sent">>,
                                     content |-> <<"Hi there!">>,
                                     success |-> TRUE, error_message |-> NoText])]_vars

\* C17: whenever the inference call of a turn fails terminally, the failure
\* does not escape the turn and a log entry with success = false carrying
\* the exception text is appended for the agent; no entry with success =
\* true is recorded for the turn.
C17_InferenceFailureLogged ==
    [][(/\ Replied
        /\ turn'.inference_calls = 3
        /\ turn'.response_text = <<"Error: ", "OpenAI API failed: ", "timeout">>) =>
            /\ Len(logs') = Len(logs) + 1
            /\ logs'[Len(logs')].agent_id = agent.id
            /\ ~logs'[Len(logs')].success
            /\ logs'[Len(logs')].error_message = <<"OpenAI API failed: ", "timeout">>]_vars

(***************************************************************************)
(* Properties of the management console                                    *)
(***************************************************************************)
\* C19: whenever api_create_agent ends with an error response after the
\* provisional record was inserted (client cannot be constructed, bot
\* registration fails, or the follow-up update fails), the record inserted by
\* that invocation no longer exists; whenever it ends with success the
\* record exists with bot_id equal to the id the registration returned.  No
\* invocation ends leaving a record without a bot_id.
C19_TwoPhaseCreate ==
    [][(api_response' # api_response /\ api_response'.endpoint = "create") =>
        /\ (api_response'.http # 200 /\ api_response'.inserted # 0) =>
                ~\E r \in agents' : r.id = api_response'.inserted
        /\ api_response'.http = 200 =>
                \E r \in agents' : /\ r.id = api_response'.inserted
                                    /\ r.bot_id = api_response'.bot_id
                                    /\ r.bot_id # NoBot
        /\ \A r \in agents' \ agents : r.bot_id # NoBot]_vars

\* C20: in every state reachable by any sequence of agent create, update,
\* toggle and delete operations, no two agents of the same tenant have the
\* same non-null bound bot identifier.
C20_UniqueBotPerTenant ==
    \A a, b \in agents :
        (a.id # b.id /\ a.domain = b.domain /\ a.bot_id # NoBot) => a.bot_id # b.bot_id

\* C21: in every state reachable by any sequence of agent create, update
\* and toggle operations (one at a time), no two active agents of the same
\* tenant have the same non-null open-line identifier, and
\* get_used_openlines(tenant) is exactly the set of open-line identifiers of
\* that tenant's active agents.
C21_OneActiveAgentPerOpenLine ==
    /\ \A a, b \in agents :
          (/\ a.id # b.id
           /\ a.domain = b.domain
           /\ a.is_active /\ b.is_active
           /\ a.open_line_id # None) => a.open_line_id # b.open_line_id
    /\ \A tenant \in {r.domain : r \in agents} :
          \A line \in {"L1"} :
            line \in get_used_openlines(agents, tenant)
                <=> \E r \in agents : /\ r.domain = tenant /\ r.is_active
                                      /\ r.open_line_id = line

(***************************************************************************)
(* Properties of the data store                                            *)
(***************************************************************************)
\* The messages of the sessions of an agent.
MessagesOf(agent_id) ==
    {m \in messages : \E c \in chats : c.id = m.chat_table_id /\ c.agent_id = agent_id}

\* C22: after delete_agent(a) completes, no agent row, knowledge chunk, log
\* entry, chat session or message belonging to a remains, and every row
\* belonging to any other agent is unchanged.
C22_DeleteAgentCascade ==
    [][finished'.op = "delete_agent" =>
        LET a == finished'.agent_id
        IN  /\ \A r \in agents' : r.id # a
            /\ \A r \in rag_documents' : r.agent_id # a
            /\ \A i \in 1..Len(logs') : logs'[i].agent_id # a
            /\ \A c \in chats' : c.agent_id # a
            /\ messages' \cap MessagesOf(a) = {}
            /\ agents' = {r \in agents : r.id # a}
            /\ rag_documents' = {r \in rag_documents : r.agent_id # a}
            /\ logs' = SelectSeq(logs, LAMBDA row : row.agent_id # a)
            /\ chats' = {c \in chats : c.agent_id # a}
            /\ messages' = messages \ MessagesOf(a)]_vars

\* delete_agent has removed sessions with messages and left rows of the
\* other agent in every table.
C22_Witness ==
    /\ finished.op = "delete_agent"
    /\ Cardinality(chats) < rowid.chats
    /\ Cardinality(messages) < rowid.messages
    /\ agents # {} /\ rag_documents # {} /\ logs # <<>> /\ chats # {} /\ messages # {}

(***************************************************************************)
(* Properties of the knowledge context                                     *)
(***************************************************************************)
\* The chunks of agent 1, and those that come before a chunk in
\* (filename, chunk index) order.
Docs == {r \in rag_documents : r.agent_id = 1}
RECURSIVE TotalLen(_)
TotalLen(rows) ==
    IF rows = {} THEN 0
    ELSE LET r == CHOOSE x \in rows : TRUE IN DocTextLen(r) + TotalLen(rows \ {r})
Before(doc) == TotalLen({r \in Docs : Precedes(r, doc)})

\* The part of the returned string that holds a chunk, if any.
PartsOf(doc) ==
    {i \in 1..Len(rag_context.value.parts) : rag_context.value.parts[i].doc = doc.id}
LastIncluded ==
    CHOOSE r \in Docs :
        r.id = rag_context.value.parts[Len(rag_context.value.parts)].doc

\* C23: for every set of chunks of an agent whose formatted total length
\* exceeds maxChars, the length of the string returned by get_rag_context is
\* at most maxChars plus the length of the filename tag of the last included
\* chunk, and the string ends with "..." if and only if the last included
\* chunk was cut mid-chunk.
C23_ContextLengthBound ==
    (rag_context.ran /\ TotalLen(Docs) > rag_max_length /\ ~rag_context.value.null) =>
        LET parts == rag_context.value.parts
            last == parts[Len(parts)]
        IN  /\ ContextLen(rag_context.value)
                  <= rag_max_length + Len(LastIncluded.filename) + 3
            /\ last.suffix = "..." <=> last.chars < DocTextLen(LastIncluded)

\* A chunk overflows when its formatted text exceeds what the chunks before
\* it leave of the budget; the first such chunk, if any.
Overflows(doc) == Before(doc) + DocTextLen(doc) > rag_max_length
FirstOverflowing ==
    {doc \in Docs : Overflows(doc) /\ \A r \in Docs : Precedes(r, doc) => ~Overflows(r)}

Whole(doc) ==
    \E i \in PartsOf(doc) :
        /\ rag_context.value.parts[i].chars = DocTextLen(doc)
        /\ rag_context.value.parts[i].suffix = ""
Cut(doc) ==
    \E i \in PartsOf(doc) :
        /\ rag_context.value.parts[i].chars = rag_max_length - Before(doc)
        /\ rag_context.value.parts[i].suffix = "..."
Omitted(doc) == PartsOf(doc) = {}

\* The chunks the rule includes: those before the first overflowing chunk,
\* and that chunk when more than 100 characters of budget remain.
Includes(doc) ==
    /\ ~\E o \in FirstOverflowing : Precedes(o, doc)
    /\ doc \in FirstOverflowing => rag_max_length - Before(doc) > 100

\* The returned string holds the included chunks, each once, in (filename,
\* chunk index) order: whole before the first overflowing chunk, that chunk
\* cut to the remaining budget with an ellipsis, nothing after it.
PrefixIncluded ==
    LET parts == rag_context.value.parts
    IN  /\ \A doc \in Docs :
              IF ~Includes(doc) THEN Omitted(doc)
              ELSE /\ Cardinality(PartsOf(doc)) = 1
                   /\ IF doc \in FirstOverflowing THEN Cut(doc) ELSE Whole(doc)
        /\ \A i \in 1..Len(parts) : \E doc \in Docs : doc.id = parts[i].doc
        /\ \A i, j \in 1..Len(parts) : i < j =>
              \E a, b \in Docs : a.id = parts[i].doc /\ b.id = parts[j].doc /\ Precedes(a, b)

ChunksOf(agent_id, filename) ==
    {r \in rag_documents : r.agent_id = agent_id /\ r.filename = filename}

\* C25: after any number of knowledge-file uploads and filename deletes for
\* an agent, sequential or overlapping in time, once all of them have
\* completed the chunks stored for each (agent, filename) have indices
\* exactly 0..n-1 with no index repeated, and they are the chunks of a
\* single upload.
C25_ChunksOfOneUpload ==
    (\A slot \in 1..MaxRequests : Free(slot)) =>
        \A agent_id \in AgentIds, filename \in {"a.txt"} :
            LET rows == ChunksOf(agent_id, filename)
            IN  /\ \A a, b \in rows : a.id # b.id => a.chunk_index # b.chunk_index
                /\ {r.chunk_index : r \in rows} = 0..(Cardinality(rows) - 1)
                /\ \E file \in KnowledgeFiles :
                      \A r \in rows :
                          /\ r.chunk_index < Len(Chunks(file))
                          /\ r.content = Chunks(file)[r.chunk_index + 1]

\* C26: in every reachable state there is at most one chat session per
\* (agent, external chat id); get_or_create_chat creates the session on the
\* first call for a pair, and every later call for the same pair, sequential
\* or concurrent, returns the identifier of that same session without
\* creating another.
C26_OneSessionPerChat ==
    [][/\ \A a, b \in chats' :
            (a.agent_id = b.agent_id /\ a.chat_id = b.chat_id) => a.id = b.id
       /\ finished'.op = "get_or_create_chat" =>
            LET before == {c \in chats : /\ c.agent_id = finished'.agent_id
                                         /\ c.chat_id = finished'.chat_id}
            IN  /\ finished'.exc = None
                /\ \E c \in chats' : /\ c.id = finished'.chat_table_id
                                     /\ c.agent_id = finished'.agent_id
                                     /\ c.chat_id = finished'.chat_id
                /\ IF before = {} THEN chats' \ chats # {} /\ finished'.created
                   ELSE /\ chats' = chats
                        /\ finished'.chat_table_id \in {c.id : c \in before}]_vars

\* The turn that ended in this step, if one did, ran into the except block
\* (it logged processing_error) or let an exception out.
EndedInHandler(result) ==
    \/ result.exc # NoText
    \/ \E i \in 1..Len(result.logs) : result.logs[i].action_type = <<"processing_error">>

\* C27: a message's processed flag changes only from unprocessed to
\* processed, and only at the end of a process_chat_messages turn that read
\* that message in its batch and completed without an exception; a turn that
\* ends in the exception handler marks no message processed, and a message
\* appended to the session after the turn read its batch is still
\* unprocessed when that turn ends.
C27_ProcessedOnlyByCompletedTurn ==
    [][/\ \A m \in messages, n \in messages' :
            (m.id = n.id /\ m.processed # n.processed) =>
                /\ ~m.processed /\ n.processed
                /\ finished'.op = "process_chat_messages"
                /\ m.id \in finished'.batch
                /\ ~EndedInHandler(finished')
                /\ \E slot \in 1..MaxRequests :
                      /\ requests[slot].op = "process_chat_messages"
                      /\ requests'[slot] = NoRequest
                      /\ requests[slot].batch = finished'.batch
       /\ (finished'.op = "process_chat_messages" /\ EndedInHandler(finished')) =>
            messages' = messages
       /\ finished'.op = "process_chat_messages" =>
            \A m \in messages : m.id \notin finished'.batch => m \in messages']_vars

\* A turn has completed and marked its batch, and a message appended to the
\* session after the batch was read is unprocessed.
C27_Witness ==
    /\ finished.op = "process_chat_messages"
    /\ ~EndedInHandler(finished)
    /\ \E m \in messages : m.id \in finished.batch /\ m.processed
    /\ \E m \in messages : /\ m.chat_table_id = finished.chat_table_id
                           /\ m.id \notin finished.batch
                           /\ ~m.processed

(***************************************************************************)
(* Properties of the Bitrix24 REST client                                  *)
(***************************************************************************)
\* The REST requests of the invocation so far.
RestRequests == SelectSeq(rest.trace, LAMBDA event : event = "request")

\* C28: one invocation of BitrixClient.call sends the REST request at most
\* twice: the second request is sent only after the first returned an
\* expired/invalid-token error in OAuth mode and the token refresh
\* succeeded, and it is sent exactly once; every other error of the first
\* request, and any error of the second request, is raised to the caller
\* without a further request.
C28_RefreshAndRetryOnce ==
    /\ Len(RestRequests) <= 2
    /\ Len(RestRequests) = 2 =>
          /\ client.mode = "oauth"
          /\ rest.first.status = 200
          /\ rest.first.error \in {"expired_token", "invalid_token", "INVALID_TOKEN"}
          /\ Len(rest.trace) >= 3
          /\ SubSeq(rest.trace, Len(rest.trace) - 2, Len(rest.trace))
                = <<"request", "refresh", "request">>
    /\ (/\ rest.first # NoRestResponse
        /\ rest.first.body \in {"error", "exception"} \/ rest.first.status # 200
        /\ Len(RestRequests) = 1) => rest.pc = "raised"
    /\ (/\ rest.second # NoRestResponse
        /\ rest.second.body \in {"error", "exception"} \/ rest.second.status # 200)
          => rest.pc = "raised"
    /\ rest.pc \in {"returned", "raised"} => ~ENABLED CallNext

\* The repeated request was sent after a refresh and was answered with an
\* error.
C28_Witness ==
    /\ Len(RestRequests) = 2
    /\ rest.second.body = "error"
    /\ rest.pc = "raised"


(***************************************************************************)
(* Properties of the event normalizer                                      *)
(***************************************************************************)
\* The keys of the three patterns and the event field, as the interface
\* writes them: data[PARAMS][X], data[USER][X], auth[X], event.
IsPatternKey(key) ==
    \/ key = <<"event">>
    \/ Len(key) = 3 /\ IsParamKey(key)
    \/ Len(key) = 3 /\ IsUserKey(key)
    \/ Len(key) = 2 /\ IsAuthKey(key)

\* The envelope written back as a flat form.
FlatForm(envelope) ==
    LET keys == {<<"data", "PARAMS", x>> : x \in DOMAIN envelope.params}
                \cup {<<"data", "USER", x>> : x \in DOMAIN envelope.user}
                \cup {<<"auth", x>> : x \in DOMAIN envelope.auth}
                \cup (IF envelope.event # None THEN {<<"event">>} ELSE {})
    IN  [key \in keys |->
            IF key = <<"event">> THEN envelope.event
            ELSE IF key[1] = "auth" THEN envelope.auth[key[2]]
            ELSE IF key[2] = "PARAMS" THEN envelope.params[key[3]]
            ELSE envelope.user[key[3]]]

\* C29: the envelope of a form holds each data[PARAMS][X], data[USER][X] and
\* auth[X] pair under its group and name and the event field under event,
\* and written back as a flat form it is exactly those pairs of the form: a
\* key of no pattern is nowhere in the envelope.
C29_FormRoundTrip ==
    pc = "parsed" =>
        FlatForm(event_data) = [key \in {k \in DOMAIN form : IsPatternKey(k)} |-> form[key]]

\* The same for the forms whose keys have no bracketed part after the name.
C29_RoundTripOfFlatKeys ==
    (pc = "parsed" /\ \A key \in DOMAIN form : EntryOf(key) = key) =>
        FlatForm(event_data) = [key \in {k \in DOMAIN form : IsPatternKey(k)} |-> form[key]]


(***************************************************************************)
(* Properties of the chat completion driver for every max_retries          *)
(***************************************************************************)
\* C30: for every max_retries, zero and negative values included, a call of
\* chat_completion that has ended returned the normalized result of a
\* successful inference call or raised the terminal error: it never returns
\* without a result.
C30_ResultOrTerminalError ==
    cc.status # "running" =>
        LET k == Len(cc_history)
        IN  \/ /\ cc.status = "returned"
               /\ k >= 1
               /\ ~AttemptFailed(cc_history[k])
               /\ cc.result = NormalizedResult(cc_history[k])
            \/ /\ cc.status = "raised"
               /\ cc.error[1] = "OpenAI API failed: "


\* A response was received but json.loads rejects the arguments of one of
\* its tool calls.
Malformed(outcome) == outcome.kind # "raise" /\ AttemptFailed(outcome)

\* C31: chat_completion makes a further inference call only after the
\* inference call itself raised; a received response with malformed tool
\* call arguments ends the call with an error, without another inference
\* call, and none of its tool calls is in a returned result.
C31_MalformedArgumentsNotRetried ==
    LET k == Len(cc_history)
    IN  /\ \A i \in 1..(k - 1) : cc_history[i].kind = "raise"
        /\ (k >= 1 /\ Malformed(cc_history[k])) =>
               (cc.status = "raised" /\ cc.result = NoResult)


(***************************************************************************)
(* Properties of the message handlers step by step                         *)
(***************************************************************************)
\* The calls of the invocation made after the agent was resolved.
HandlerOrder == <<"bot_typing_start", "process_with_openai", "bot_send_message", "add_log">>
Resolving == {"get_agent_by_bot_id", "get_agent_by_openline", "get_agents"}
Resolved == SelectSeq(calls, LAMBDA c : c.op \notin Resolving)

\* In every state of an invocation the calls made after the resolution are
\* the first calls of typing, turn, send, log in that order, the turn's
\* tools run after its inference call, and typing and send are made under
\* the bot id of the agent row the router holds.
StepsInOrder ==
    /\ Len(Resolved) <= Len(HandlerOrder)
    /\ \A i \in 1..Len(Resolved) :
        /\ Resolved[i].op = HandlerOrder[i]
        /\ i \in {1, 3} => (agent # NoAgent /\ Resolved[i].bot_id = agent.bot_id)
    /\ Len(Resolved) >= 1 => (agent # NoAgent /\ agent.is_active)
    /\ Len(Resolved) < 2 => turn = NoTurn
    /\ turn.tool_results # <<>> => turn.inference_calls >= 1
    /\ pc = "typed" <=> Len(Resolved) = 1
    /\ pc = "turned" <=> Len(Resolved) = 2
    /\ pc = "sent" <=> Len(Resolved) = 3

\* The log table changes in the log step only, by one row of the agent; and
\* once an active agent is resolved, the invocation ends only in the log
\* step, with status ok when add_log works, whatever typing and send did.
LogStep ==
    /\ logs' # logs =>
           /\ pc = "sent" /\ pc' = "done"
           /\ Len(logs') = Len(logs) + 1
           /\ logs'[Len(logs')].agent_id = agent.id
    /\ (pc \in {"reply", "typed", "turned"} /\ pc' # pc) =>
           pc' \in {"typed", "turned", "sent"}
    /\ (pc = "sent" /\ pc' # pc /\ calls'[Len(calls')].ok) =>
           /\ pc' = "done"
           /\ response' = Status("ok")
           /\ logs' # logs

TenantOfEvent ==
    /\ agent # NoAgent => agent.domain = Domain(event_data)
    /\ \A i \in 1..Len(all_agents) : all_agents[i].domain = Domain(event_data)
    /\ turn # NoTurn => (agent # NoAgent /\ agent.domain = Domain(event_data))

\* A log row is written for the agent the router holds, a row of the table
\* in the event's tenant.
TenantOfLogRow ==
    logs' # logs =>
        /\ Len(logs') = Len(logs) + 1
        /\ logs'[Len(logs')].agent_id = agent.id
        /\ \E row \in agents : row.id = agent.id /\ row.domain = Domain(event_data)

\* C33: for every inbound event carrying tenant T, the agent used for the
\* turn, found by the exact lookup or by either fallback, belongs to T: no
\* inference call, reply or log entry is made for an agent of another
\* tenant.
C33_TenantIsolation == []TenantOfEvent /\ [][TenantOfLogRow]_vars

\* A reply for tenant t1 while an agent of tenant t2 is bound to the bot id
\* the event addresses.
C33_Witness ==
    /\ pc = "done"
    /\ response = Status("ok")
    /\ event_data.event \in InternalEvents
    /\ bot_id_int = 42
    /\ agent.domain = "t1"
    /\ Len(logs) = 1
    /\ \E row \in agents : row.domain = "t2" /\ row.bot_id = 42 /\ row.is_active


(***************************************************************************)
(* Properties of the enabled tools                                         *)
(***************************************************************************)
\* The names of a list.
Names(list) == {list[i] : i \in 1..Len(list)}

\* The place of a tool in the catalog.
CatalogIndex(name) == CHOOSE i \in 1..Len(TOOLS_DEFINITIONS) : TOOLS_DEFINITIONS[i] = name

\* The tools offered are the enabled tools of the catalog, each once, in
\* catalog order.
C34_OfferedTools ==
    offered.ran =>
        LET tools == offered.value
        IN  /\ Names(tools) = Names(EnabledTools(turn_input.agent)) \cap ToolCatalog
            /\ \A i, j \in 1..Len(tools) :
                    i < j => CatalogIndex(tools[i]) < CatalogIndex(tools[j])

C34_OfferedWitness ==
    /\ offered.ran
    /\ offered.value = <<"crm_lead_add", "crm_deal_add", "get_todays_date">>

\* C34: only the enabled tools are offered to the model, in catalog order,
\* and no tool of the catalog outside the agent's enabled_tools is executed
\* in a turn, whatever tool calls the response holds.
C34_OnlyEnabledToolsRun ==
    LET enabled == Names(EnabledTools(turn_input.agent))
    IN  /\ C34_OfferedTools
        /\ pwo_result.ran =>
               \A i \in 1..Len(pwo_result.value.functions) :
                   pwo_result.value.functions[i] \in ToolCatalog =>
                       pwo_result.value.functions[i] \in enabled
        /\ pcm_result.ran =>
               \A i \in 1..Len(ToolLogs(pcm_result.value.logs)) :
                   LET name == ToolLogs(pcm_result.value.logs)[i].action_type[2]
                   IN  name \in ToolCatalog => name \in enabled


(***************************************************************************)
(* Properties of the turns of one session                                  *)
(***************************************************************************)
\* C35: across the turns of a session, the tool calls made for a batch of
\* inbound messages are executed in at most one turn, also when that turn
\* failed after the tools ran: while the session's only message is the
\* batch, the one tool call the model asks for is executed and logged at
\* most once.
C35_ToolsOncePerBatch ==
    rowid.messages = 1 => Len(ToolLogs(logs)) <= 1

\* The same for the turns that end without an exception.
C35_ToolsOnceWhenTurnsComplete ==
    (rowid.messages = 1 /\ \A i \in 1..Len(logs) : logs[i].success) =>
        Len(ToolLogs(logs)) <= 1


(***************************************************************************)
(* Properties of the agent limit                                           *)
(***************************************************************************)
\* C36: in every reachable state, overlapping api_create_agent requests
\* included, a tenant has at most MAX_AGENTS agent records.
C36_AgentLimit ==
    \A domain \in Domains :
        Cardinality({r \in agents : r.domain = domain}) <= MAX_AGENTS

\* A create request that arrives when the tenant has MAX_AGENTS records is
\* answered 400 and neither inserts a record nor registers a bot.
C36_RejectedAtLimit ==
    [][(/\ \/ \E slot \in 1..MaxRequests :
                  (requests[slot] = NoRequest /\ requests'[slot] # NoRequest)
            \/ (requests' = requests /\ finished' # NoFinished)
         /\ Cardinality({r \in agents : r.domain = config.domain}) >= MAX_AGENTS)
        => /\ requests' = requests
           /\ finished'.http = 400
           /\ agents' = agents
           /\ next_bot_id' = next_bot_id]_vars

\* The update_agent call of a slot returns True in this step.
Writes(slot) ==
    /\ requests[slot] # NoRequest
    /\ requests[slot].op = "update_agent"
    /\ requests'[slot] = NoRequest

\* C37: every update_agent call that returns True leaves each column its
\* mapping does not list as it was in the table just before the write,
\* also when another update of the same agent was committed after the
\* call read the row.
C37_UnlistedColumnsKept ==
    [][\A slot \in 1..MaxRequests :
          Writes(slot) =>
              \A key \in UpdateColumns \ DOMAIN requests[slot].agent_data :
                  \A before \in {r \in agents : r.id = requests[slot].agent_id} :
                      key \in DOMAIN before =>
                          CurrentRow(agents', before.id)[key] = before[key]]_vars

\* C37: an update_agent call during which no other call wrote the row
\* sets exactly the columns of its mapping to the mapping's values and
\* leaves every other column of the row, and every other row, as it was.
C37_PartialUpdateAlone ==
    [][\A slot \in 1..MaxRequests :
          (Writes(slot) /\ requests[slot].current \in agents) =>
              \E call \in {requests[slot]} :
                  /\ finished'.result = TRUE
                  /\ \A r \in agents : r.id # call.agent_id => r \in agents'
                  /\ \A key \in DOMAIN call.current :
                        CurrentRow(agents', call.agent_id)[key] =
                            IF key \in DOMAIN call.agent_data
                            THEN call.agent_data[key]
                            ELSE call.current[key]]_vars

\* C37: update_agent on an id without a row returns False and changes
\* nothing.
C37_MissingAgentUnchanged ==
    [][(finished' # finished /\ finished'.op = "update_agent"
            /\ ~\E r \in agents : r.id = finished'.agent_id)
        => (finished'.result = FALSE /\ agents' = agents /\ requests' = requests)]_vars

\* C38: in every reachable state each row of table logs carries the id of
\* a row of table agents, also when delete_agent ran while a webhook turn
\* that had resolved the agent was in flight.
C38_LogsReferToAgents ==
    \A i \in 1..Len(logs) : \E r \in agents : r.id = logs[i].agent_id

\* C38: delete_agent itself leaves no log row of the agent it deletes.
C38_DeleteRemovesLogs ==
    [][\A r \in agents \ agents' :
          \A i \in 1..Len(logs') : logs'[i].agent_id # r.id]_vars

====
